---- MODULE Spec2Model ----
(***************************************************************************)
(* MemoryPool_v2: ThreadCache / CentralCache / PageCache allocator.        *)
(* Addresses are integers, a block's first word is mem[address], and the   *)
(* free lists are the intrusive chains the code builds through             *)
(* GetNextBlock.                                                           *)
(***************************************************************************)
EXTENDS Integers, Sequences, FiniteSets, TLC

VARIABLES
    build,          \* "debug": assert() is compiled in; "release": NDEBUG
    platform,       \* "posix": mmap / munmap; "windows": VirtualAlloc / VirtualFree
    mode,           \* user-code pattern: "mix" or "churn"
    status,         \* "running", "aborted" (failed assert), "crashed" (fault)
    mem,            \* first word of every block start the allocator has used
    freeList_,      \* ThreadCache::freeList_          [thread][index]
    freeListSize_,  \* ThreadCache::freeListSize_      [thread][index]
    nextAllocateCount_,             \* ThreadCache     [thread][index]
    freeLists_,     \* CentralCache::freeLists_        [index]
    freeListSizes_, \* CentralCache::freeListSizes_    [index]
    pageMaps_,      \* CentralCache::pageMaps_         [index] : start -> PageSpan
    nextAllocateMemoryGroupCount_,  \* CentralCache    [index]
    freePageStore_, \* PageCache: page count -> set of MemorySpan
    freePageMap_,   \* PageCache: start -> MemorySpan
    pageVector_,    \* PageCache: OS regions, in order of SystemAlloc
    isStop_,        \* PageCache::isStop_
    unmapped,       \* the OS: region start -> number of SystemFree calls on it
    statusLists_,   \* CentralCache::statusLists_     [index] : flag set
    mutex_,         \* PageCache::mutex_: the thread that holds it, 0 if none
    pc,             \* [thread] : where a thread stands in a guarded call
    heap,           \* system heap: chunk address -> "used" | "free" (stale contents kept in mem)
    live,           \* blocks held by user code: slot -> NoBlock | [addr, n, stamped]
    ops,            \* number of user operations performed in "mix" mode
    ret,            \* the last operation: what it returned, the locks it took
    probe           \* size-class probe: [n, cls, idx]; in "pool" mode the MemoryPool_v1
                    \* object, its heap and the slots its user holds

vars == <<build, platform, mode, status, mem, freeList_, freeListSize_, nextAllocateCount_,
          freeLists_, freeListSizes_, pageMaps_, nextAllocateMemoryGroupCount_,
          freePageStore_, freePageMap_, pageVector_, isStop_, unmapped, heap, live,
          ops, ret, probe, statusLists_, mutex_, pc>>

\* everything but the guards and the threads' positions
dataVars == <<build, platform, mode, status, mem, freeList_, freeListSize_,
              nextAllocateCount_, freeLists_, freeListSizes_, pageMaps_,
              nextAllocateMemoryGroupCount_, freePageStore_, freePageMap_, pageVector_,
              isStop_, unmapped, heap, live, ops, ret, probe>>
lockVars == <<statusLists_, mutex_, pc>>

tcVars == <<freeList_, freeListSize_, nextAllocateCount_>>
ccVars == <<freeLists_, freeListSizes_, pageMaps_, nextAllocateMemoryGroupCount_>>
pcVars == <<freePageStore_, freePageMap_, pageVector_, isStop_>>

----------------------------------------------------------------------------
(* Program constants                                                       *)

ALIGNMENT == 8
PAGE_SIZE == 4096
MAX_UNIT_COUNT == PAGE_SIZE \div ALIGNMENT
MAX_CACHED_UNIT_SIZE == 32768
MAX_FREE_BYTES_PER_LIST == 2097152
PAGE_ALLOCATE_COUNT == 2048
MAX_SEARCH_ITERATIONS == 1000
MAX_MERGE_ITERATIONS == 100

SIZE_CLASSES ==
    <<8, 16, 32, 64, 128,
      256, 384, 512,
      640, 768, 896, 1024,
      1280, 1536, 1792, 2048,
      2560, 3072, 3584, 4096,
      5120, 6144, 7168, 8192,
      10240, 12288, 14336, 16384,
      20480, 24576, 28672, 32768>>

CACHE_LIST_SIZE == Len(SIZE_CLASSES)

\* SIZE_CLASSES[i] with the code's 0-based index
SizeClassAt(i) == SIZE_CLASSES[i + 1]

----------------------------------------------------------------------------
(* Bounds of the model                                                     *)

MaxProbe == 33000       \* raw sizes probed by the size-class specification
MaxLive == 3            \* blocks user code holds at once in "mix" mode
MaxOps == 3             \* user operations explored in "mix" mode
MaxCentralOps == 4      \* CentralCache calls explored in "central" mode
MaxPageOps == 5         \* PageCache calls explored in "page" mode
MaxChain == 2           \* blocks in a chain handed to CentralCache::Deallocate in "locks" mode
MaxReuseOps == 4        \* user operations explored in "reuse" mode
MaxRegions == 2         \* regions PageCache maps in "search" mode
MaxTail == 2            \* free pages left when the run goes back in "search" mode
MaxFlushOps == 4        \* user operations explored in "flush" mode
MaxPoolLive == 5        \* slots and arrays the user of a MemoryPool_v1 holds at once

Threads == {1, 2}
Indexes == 0..(CACHE_LIST_SIZE - 1)
Slots == 1..MaxLive

NULL == 0
NoBlock == [addr |-> NULL, n |-> 0, stamped |-> FALSE]
\* the byte pattern the holder of slot s fills its block with: zero bytes
\* (memset 0) in slot 1, distinct non-zero bytes elsewhere; read as a pointer
\* a non-zero pattern is not a readable address
Pattern(s) == 1 - s

\* raw sizes user code asks for
ReqSizes == {0, 28001, 30000, 32768, 40001}
ChurnSize == 32768
\* a raw size whose rounded size, 30720, is no entry of SIZE_CLASSES
OddSize == 30000
\* two raw sizes of one list that one thread frees and asks for again
ReuseSizes == {28001, 30000}
\* the largest cached size and a size above it, asked for by one thread
FlushSizes == {32768, 40001}
\* sizes passed along with a null pointer
NullSizes == {ChurnSize}

\* address space: two system-heap chunks, then the mmap area
HeapBase == 256 * PAGE_SIZE
ChunkStride == 16 * PAGE_SIZE
Chunks == {HeapBase, HeapBase + ChunkStride}
OsBase == 16384 * PAGE_SIZE
\* offset of an interior, unaligned pointer into a block
InteriorOffset == ALIGNMENT + (ALIGNMENT \div 2)

Max(a, b) == IF a >= b THEN a ELSE b
Min(a, b) == IF a <= b THEN a ELSE b

----------------------------------------------------------------------------
(* SizeUtil                                                                *)

\* (rawSize + alignment - 1) & ~(alignment - 1), alignment a power of two
AlignSize(rawSize, alignment) == ((rawSize + alignment - 1) \div alignment) * alignment

GetSizeClass(rawSize) ==
    IF rawSize = 0 THEN SizeClassAt(0)
    ELSE IF rawSize > MAX_CACHED_UNIT_SIZE THEN rawSize
    ELSE IF rawSize <= 128 THEN ((rawSize + 7) \div 8) * 8
    ELSE IF rawSize <= 1024 THEN ((rawSize + 127) \div 128) * 128
    ELSE IF rawSize <= 8192 THEN ((rawSize + 511) \div 512) * 512
    ELSE ((rawSize + 2047) \div 2048) * 2048

\* assert(false && "Size out of range for cache") is reached
GetIndexAsserts(rawSize) == rawSize # 0 /\ GetSizeClass(rawSize) > 32768

GetIndex(rawSize) ==
    IF rawSize = 0 THEN 0
    ELSE LET IndexOf(sizeClass) ==
                 IF sizeClass <= 128 THEN (sizeClass \div 8) - 1
                 ELSE IF sizeClass <= 512 THEN 4 + ((sizeClass - 128) \div 128)
                 ELSE IF sizeClass <= 1024 THEN 7 + ((sizeClass - 512) \div 128)
                 ELSE IF sizeClass <= 2048 THEN 11 + ((sizeClass - 1024) \div 256)
                 ELSE IF sizeClass <= 4096 THEN 15 + ((sizeClass - 2048) \div 512)
                 ELSE IF sizeClass <= 8192 THEN 19 + ((sizeClass - 4096) \div 1024)
                 ELSE IF sizeClass <= 16384 THEN 23 + ((sizeClass - 8192) \div 2048)
                 ELSE IF sizeClass <= 32768 THEN 27 + ((sizeClass - 16384) \div 4096)
                 ELSE CACHE_LIST_SIZE - 1
         IN IndexOf(GetSizeClass(rawSize))

----------------------------------------------------------------------------
(* Memory words                                                            *)

\* mmap memory is zero-filled; a word never written reads as 0
Read(m, a) == IF a \in DOMAIN m THEN m[a] ELSE 0
Write(m, a, v) == (a :> v) @@ m

\* a dereference of a faults unless a lies in the heap area or an OS region
Readable(vec, a) ==
    \/ a >= HeapBase /\ a < HeapBase + 2 * ChunkStride
    \/ \E i \in 1..Len(vec) : a >= vec[i].data /\ a < vec[i].data + vec[i].size

\* the intrusive list from p: the nodes up to the first null link, unreadable
\* address (at = where the walk stopped) or fuel nodes; walked in halves to
\* keep the evaluation shallow
RECURSIVE ListWalk(_, _, _, _)
ListWalk(m, vec, p, fuel) ==
    IF fuel <= 0 \/ p = NULL \/ ~Readable(vec, p) THEN [nodes |-> << >>, at |-> p]
    ELSE IF fuel = 1 THEN [nodes |-> <<p>>, at |-> Read(m, p)]
    ELSE LET Rest(a) ==
                 IF Len(a.nodes) < fuel \div 2 THEN a
                 ELSE LET Join(b) == [nodes |-> a.nodes \o b.nodes, at |-> b.at]
                      IN Join(ListWalk(m, vec, a.at, fuel - (fuel \div 2)))
         IN Rest(ListWalk(m, vec, p, fuel \div 2))

----------------------------------------------------------------------------
(* MemorySpan and PageSpan                                                 *)

MemorySpan(data, size) == [data |-> data, size |-> size]

PageSpan(span, unitSize) ==
    [data |-> span.data, size |-> span.size, unitSize |-> unitSize,
     totalUnitCount |-> span.size \div unitSize, allocatedUnitCount |-> 0]

IsInCharge(ps, memory) ==
    IF memory.size # ps.unitSize THEN FALSE
    ELSE IF memory.data < ps.data THEN FALSE
    ELSE IF (memory.data - ps.data) % ps.unitSize # 0 THEN FALSE
    ELSE (memory.data - ps.data) + ps.unitSize <= ps.size

\* PageSpan::Allocate, after its assert.  The count is a size_t that is only
\* stepped by one and compared with zero, so the integers stand for it
\* (a wrapped count is a negative one).
PageSpan_Allocate(ps) ==
    [ps EXCEPT !.allocatedUnitCount = @ + 1]

\* PageSpan::Deallocate, after its asserts
PageSpan_Deallocate(ps) ==
    [ps EXCEPT !.allocatedUnitCount = @ - 1]

----------------------------------------------------------------------------
(* The allocator below ThreadCache is threaded through one record S:       *)
(*   st                      "running" | "aborted" | "crashed" | "hung"    *)
(*   mem, heap               memory words and system-heap chunks           *)
(*   fl, fls, pm, gc         CentralCache freeLists_, freeListSizes_,      *)
(*                           pageMaps_, nextAllocateMemoryGroupCount_      *)
(*   store, map, vec, stop   PageCache freePageStore_, freePageMap_,       *)
(*                           pageVector_, isStop_                          *)
(*   lk                      the locks the running operation has acquired  *)
(* An operation that finds S.st # "running" does nothing more.             *)

Fail(S, how) == [S EXCEPT !.st = how]
\* the guards of the code: CentralCache::statusLists_[index] and PageCache::mutex_
ClassFlag(index) == <<"statusLists_", index>>
PageMutex == <<"mutex_", 0>>
Acquire(S, lock) == [S EXCEPT !.lk = @ \cup {lock}]
\* assert(cond): compiled in only in the debug build
AssertFails(dbg, cond) == dbg /\ ~cond

\* std::map / std::set helpers
Keys(f) == DOMAIN f
\* an erase that leaves the entry in the map
MapErase_Keeps(f, k) == f
MapErase(f, k) == [x \in DOMAIN f \ {k} |-> f[x]]
\* emplace does not overwrite an existing key
MapEmplace(f, k, v) == IF k \in DOMAIN f THEN f ELSE [x \in DOMAIN f \cup {k} |-> IF x = k THEN v ELSE f[x]]
SetMin(s) == CHOOSE x \in s : \A y \in s : x <= y
SetMax(s) == CHOOSE x \in s : \A y \in s : x >= y
\* std::set<MemorySpan> orders and identifies its elements by data_ alone
SpanSetEmplace(set, span) == IF \E e \in set : e.data = span.data THEN set ELSE set \cup {span}
\* an erase that leaves the run in the set
SpanSetErase_Keeps(set, span) == set
SpanSetErase(set, span) == {e \in set : e.data # span.data}
\* freePageStore_[k], creating the key as operator[] does
StoreAt(store, k) == IF k \in DOMAIN store THEN store[k] ELSE {}
StorePut(store, k, set) == [x \in DOMAIN store \cup {k} |-> IF x = k THEN set ELSE store[x]]

\* an insertion that leaves the page-count index alone
IndexFreeSpan_MapOnly(S, freeSpan) ==
    [S EXCEPT !.map = MapEmplace(S.map, freeSpan.data, freeSpan)]

\* insert a free run in both indices
IndexFreeSpan(S, freeSpan) ==
    LET k == freeSpan.size \div PAGE_SIZE IN
    [S EXCEPT !.store = StorePut(S.store, k, SpanSetEmplace(StoreAt(S.store, k), freeSpan)),
              !.map = MapEmplace(S.map, freeSpan.data, freeSpan)]

----------------------------------------------------------------------------
(* PageCache                                                               *)

\* what the OS does with a request to map a region: gap >= 0 places it gap
\* bytes above the highest region, Below places it so that it ends where the
\* lowest region begins (mmap hands out addresses top-down), Refused maps
\* nothing
Below == -1
Refused == -2

\* the failure value is MAP_FAILED, (void*)-1, for mmap and a null pointer for
\* VirtualAlloc; the code tests for the null pointer and then clears the region
SystemAlloc(S, pageCount, gap) ==
    LET size == PAGE_SIZE * pageCount
        base == IF Len(S.vec) = 0 THEN OsBase
                ELSE IF gap = Below
                THEN SetMin({S.vec[i].data : i \in 1..Len(S.vec)}) - size
                ELSE SetMax({S.vec[i].data + S.vec[i].size : i \in 1..Len(S.vec)}) + gap
        zeroed == [x \in DOMAIN S.mem |->
                      IF x >= base /\ x < base + size THEN 0 ELSE S.mem[x]]
    IN IF gap = Refused
       THEN [S |-> IF S.os = "posix" THEN Fail(S, "crashed") ELSE S,
             ok |-> FALSE, span |-> MemorySpan(NULL, 0)]
       ELSE [S |-> [S EXCEPT !.mem = zeroed], ok |-> TRUE, span |-> MemorySpan(base, size)]

AllocatePage(S0, pageCount, gap) ==
    IF pageCount = 0 THEN [S |-> S0, ok |-> FALSE, span |-> MemorySpan(NULL, 0)]
    ELSE
    LET S == Acquire(S0, PageMutex)
        above == {k \in Keys(S.store) : k >= pageCount}
        \* the search visits at most MAX_SEARCH_ITERATIONS keys, skipping empty sets
        visited == IF Cardinality(above) <= MAX_SEARCH_ITERATIONS THEN above
                   ELSE {k \in above : Cardinality({j \in above : j <= k}) <= MAX_SEARCH_ITERATIONS}
        \* a free run is there: take it off both indices, put its tail back
        Split(k, freeSpan) ==
            LET S1 == [S EXCEPT !.store = StorePut(S.store, k, S.store[k] \ {freeSpan}),
                                !.map = MapErase(S.map, freeSpan.data)]
                sizeToUse == pageCount * PAGE_SIZE
                memoryToUse == MemorySpan(freeSpan.data, sizeToUse)
                rest == MemorySpan(freeSpan.data + sizeToUse, freeSpan.size - sizeToUse)
            IN [S |-> IF rest.size # 0 THEN IndexFreeSpan(S1, rest) ELSE S1,
                ok |-> TRUE, span |-> memoryToUse]
        FirstOf(k) == Split(k, CHOOSE e \in S.store[k] : \A o \in S.store[k] : e.data <= o.data)
        \* none is: map a fresh region, put its tail in the indices
        Carve(sys) ==
            IF ~sys.ok THEN sys
            ELSE
            LET memory == sys.span
                S1 == [sys.S EXCEPT !.vec = Append(@, memory)]
                memoryToUse == pageCount * PAGE_SIZE
                result == MemorySpan(memory.data, memoryToUse)
                freeSpan == MemorySpan(memory.data + memoryToUse, memory.size - memoryToUse)
            IN [S |-> IF freeSpan.size # 0 THEN IndexFreeSpan(S1, freeSpan) ELSE S1,
                ok |-> TRUE, span |-> result]
        Search(found) ==
            IF found # {} THEN FirstOf(SetMin(found))
            ELSE Carve(SystemAlloc(S, Max(PAGE_ALLOCATE_COUNT, pageCount), gap))
    IN Search({k \in visited : S.store[k] # {}})

\* first loop of DeallocatePage: absorb the free runs that end where page starts
RECURSIVE MergePrevious(_, _, _, _)
MergePrevious(S, page, mergeCount, dbg) ==
    IF Keys(S.map) = {} \/ mergeCount >= MAX_MERGE_ITERATIONS THEN [S |-> S, page |-> page]
    ELSE IF AssertFails(dbg, page.data \notin Keys(S.map)) THEN [S |-> Fail(S, "aborted"), page |-> page]
    ELSE LET below == {k \in Keys(S.map) : k <= page.data} IN
         IF below = {} THEN [S |-> S, page |-> page]
         ELSE LET prevSpan == S.map[SetMax(below)] IN
              IF prevSpan.data + prevSpan.size = page.data
              THEN LET k == prevSpan.size \div PAGE_SIZE
                       S1 == [S EXCEPT !.store = StorePut(S.store, k, SpanSetErase(StoreAt(S.store, k), prevSpan)),
                                       !.map = MapErase(S.map, SetMax(below))]
                   IN MergePrevious(S1, MemorySpan(prevSpan.data, prevSpan.size + page.size),
                                    mergeCount + 1, dbg)
              ELSE [S |-> S, page |-> page]

\* a second loop that absorbs nothing
MergeNext_None(S, page, mergeCount, dbg) == [S |-> S, page |-> page]

\* second loop of DeallocatePage: absorb the free runs that start where page ends
RECURSIVE MergeNext(_, _, _, _)
MergeNext(S, page, mergeCount, dbg) ==
    IF Keys(S.map) = {} \/ mergeCount >= MAX_MERGE_ITERATIONS THEN [S |-> S, page |-> page]
    ELSE IF AssertFails(dbg, page.data \notin Keys(S.map)) THEN [S |-> Fail(S, "aborted"), page |-> page]
    ELSE IF (page.data + page.size) \in Keys(S.map)
         THEN LET nextSpan == S.map[page.data + page.size]
                  k == nextSpan.size \div PAGE_SIZE
                  S1 == [S EXCEPT !.store = StorePut(S.store, k, SpanSetErase(StoreAt(S.store, k), nextSpan)),
                                  !.map = MapErase(S.map, page.data + page.size)]
              IN MergeNext(S1, MemorySpan(page.data, page.size + nextSpan.size), mergeCount + 1, dbg)
         ELSE [S |-> S, page |-> page]

\* a DeallocatePage that forgets the run
DeallocatePage_Drops(S, page, dbg) == Acquire(S, PageMutex)

DeallocatePage(S, page, dbg) ==
    IF AssertFails(dbg, page.size % PAGE_SIZE = 0) THEN Fail(S, "aborted")
    ELSE LET Forward(b) ==
                 IF b.S.st # "running" THEN b.S ELSE IndexFreeSpan(b.S, b.page)
             Backward(a) ==
                 IF a.S.st # "running" THEN a.S
                 ELSE Forward(MergeNext(a.S, a.page, 0, dbg))
         IN Backward(MergePrevious(Acquire(S, PageMutex), page, 0, dbg))

\* SystemFree of every region, once
Stop(S0) ==
    LET S == Acquire(S0, PageMutex)
        regions == {S.vec[i].data : i \in 1..Len(S.vec)}
    IN IF ~S.stop
       THEN [S EXCEPT !.stop = TRUE,
                      !.freed = [d \in DOMAIN S.freed \cup regions |->
                                    (IF d \in DOMAIN S.freed THEN S.freed[d] ELSE 0)
                                        + (IF d \in regions THEN 1 ELSE 0)]]
       ELSE S

\* malloc(size): the chunk the system heap picks; its bytes are indeterminate,
\* firstWord is what its first word happens to hold
AllocateUnit(S, size, chunk, firstWord) ==
    IF chunk = NULL THEN [S |-> S, ok |-> FALSE, span |-> MemorySpan(NULL, 0)]
    ELSE [S |-> [S EXCEPT !.heap = [@ EXCEPT ![chunk] = "used"],
                          !.mem = Write(S.mem, chunk, firstWord)],
          ok |-> TRUE, span |-> MemorySpan(chunk, size)]

\* free(ptr); freeing what malloc did not return is a fault
DeallocateUnit(S, memoryUnit) ==
    IF memoryUnit.data = NULL THEN S
    ELSE IF memoryUnit.data \in Chunks /\ S.heap[memoryUnit.data] = "used"
    THEN [S EXCEPT !.heap = [@ EXCEPT ![memoryUnit.data] = "free"]]
    ELSE Fail(S, "crashed")

----------------------------------------------------------------------------
(* CentralCache                                                            *)

NoResult(S) == [S |-> S, ok |-> FALSE, res |-> NULL]

\* a page count that leaves the group counter where it was
GetAllocatedPageCount_NoGrowth(S, memorySize) ==
    LET Count(index, result) ==
            [S |-> [S EXCEPT !.gc[index] = result],
             count |-> AlignSize(result * MAX_FREE_BYTES_PER_LIST, PAGE_SIZE) \div PAGE_SIZE]
        At(index) == Count(index, Max(S.gc[index], 1))
    IN At(GetIndex(memorySize))

GetAllocatedPageCount(S, memorySize) ==
    LET Count(index, result) ==
            [S |-> [S EXCEPT !.gc[index] = result + 1],
             count |-> AlignSize(result * MAX_FREE_BYTES_PER_LIST, PAGE_SIZE) \div PAGE_SIZE]
        At(index) == Count(index, Max(S.gc[index], 1))
    IN At(GetIndex(memorySize))

\* upper_bound(memory) then --it: the record with the greatest start <= memory
SpanKeyOf(pageMap, memory) ==
    LET below == {k \in Keys(pageMap) : k <= memory} IN
    IF below = {} THEN NULL ELSE SetMax(below)

\* slow path of Allocate, once the run is there: slice it, chain the first
\* blockCount slices as the result, record the span, push the rest
SliceRun(S, memory, memorySize, blockCount, index, dbg) ==
    LET total == memory.size \div memorySize
        block(i) == memory.data + i * memorySize
    IN IF blockCount > total
       THEN \* SubSpan runs off the run: its assert in debug, wild writes otherwise
            NoResult(Fail(S, IF dbg THEN "aborted" ELSE "crashed"))
       ELSE IF AssertFails(dbg, memory.data \notin Keys(S.pm[index]))
       THEN NoResult(Fail(S, "aborted"))
       ELSE
       LET taken == {block(i) : i \in 0..(blockCount - 1)}
           rest == {block(j) : j \in blockCount..(total - 1)}
           oldHead == S.fl[index]
           pageSpan == [PageSpan(memory, memorySize) EXCEPT !.allocatedUnitCount = blockCount]
           newMem == [x \in DOMAIN S.mem \cup taken \cup rest |->
                        IF x \in taken
                        THEN (IF x = block(0) THEN NULL ELSE x - memorySize)
                        ELSE IF x \in rest
                        THEN (IF x = block(blockCount) THEN oldHead ELSE x - memorySize)
                        ELSE S.mem[x]]
       IN [S |-> [S EXCEPT !.mem = newMem,
                           !.pm[index] = MapEmplace(@, memory.data, pageSpan),
                           !.fl[index] = IF total > blockCount THEN block(total - 1) ELSE oldHead,
                           !.fls[index] = @ + (total - blockCount)],
           ok |-> TRUE, res |-> block(blockCount - 1)]

\* a round of that loop that leaves the span record as it was
TakeOne_Uncounted(X, memorySize, index, dbg) ==
    LET S == X.S
        temp == S.fl[index]
    IN IF S.st # "running" THEN X
       ELSE IF temp = NULL \/ ~Readable(S.vec, temp) THEN [X EXCEPT !.S = Fail(S, "crashed")]
       ELSE [S |-> [S EXCEPT !.fl[index] = Read(S.mem, temp),
                             !.fls[index] = @ - 1,
                             !.mem = Write(S.mem, temp, X.res)],
             res |-> temp]

\* one round of the fast-path loop of Allocate: pop the head of the class
\* list onto the result chain.  X = [S, res].
TakeOne(X, memorySize, index, dbg) ==
    LET S == X.S
        temp == S.fl[index]
        key == SpanKeyOf(S.pm[index], temp)
    IN IF S.st # "running" THEN X
       ELSE IF temp = NULL THEN [X EXCEPT !.S = Fail(S, IF dbg THEN "aborted" ELSE "crashed")]
       ELSE IF ~Readable(S.vec, temp) THEN [X EXCEPT !.S = Fail(S, "crashed")]
       \* RecordAllocatedMemorySpan: --begin() is modelled as a fault
       ELSE IF key = NULL THEN [X EXCEPT !.S = Fail(S, IF dbg THEN "aborted" ELSE "crashed")]
       ELSE IF AssertFails(dbg, IsInCharge(S.pm[index][key], MemorySpan(temp, memorySize)))
       THEN [X EXCEPT !.S = Fail(S, "aborted")]
       ELSE [S |-> [S EXCEPT !.fl[index] = Read(S.mem, temp),
                             !.fls[index] = @ - 1,
                             !.pm[index][key] = PageSpan_Allocate(@),
                             !.mem = Write(S.mem, temp, X.res)],
             res |-> temp]

\* rounds lo..hi of that loop (split in halves to keep the evaluation shallow)
RECURSIVE TakeLoop(_, _, _, _, _, _)
TakeLoop(X, memorySize, index, dbg, lo, hi) ==
    IF lo > hi THEN X
    ELSE IF lo = hi THEN TakeOne(X, memorySize, index, dbg)
    ELSE LET Then(L) ==
                 IF L.S.st # "running" THEN L
                 ELSE TakeLoop(L, memorySize, index, dbg, ((lo + hi) \div 2) + 1, hi)
         IN Then(TakeLoop(X, memorySize, index, dbg, lo, (lo + hi) \div 2))

\* fast path of Allocate: pop blockCount blocks off the class list
TakeFromList(S, memorySize, index, blockCount, dbg) ==
    LET Result(X) ==
            IF X.S.st # "running" THEN NoResult(X.S)
            ELSE [S |-> X.S, ok |-> TRUE, res |-> X.res]
    IN Result(TakeLoop([S |-> S, res |-> NULL], memorySize, index, dbg, 1, blockCount))

\* env: what the outside supplies to this call
\*   gap        placement of a fresh mmap region
\*   chunk      the chunk malloc returns (NULL: malloc fails)
\*   firstWord  the indeterminate first word of that chunk
CentralCache_Allocate(S0, memorySize, blockCount, env, dbg) ==
    IF memorySize = 0 \/ blockCount = 0 THEN NoResult(S0)
    ELSE IF memorySize > MAX_CACHED_UNIT_SIZE
    THEN LET Unit(u) == [S |-> u.S, ok |-> u.ok, res |-> u.span.data]
         IN Unit(AllocateUnit(S0, memorySize, env.chunk, env.firstWord))
    ELSE
    LET Locked(index) ==
            LET S == Acquire(S0, ClassFlag(index))
                Slice(ret_) ==
                    IF ~ret_.ok THEN NoResult(ret_.S)
                    ELSE SliceRun(ret_.S, ret_.span, memorySize, blockCount, index, dbg)
                Grow(g) == Slice(AllocatePage(g.S, g.count, env.gap))
            IN IF S.fls[index] < blockCount
               THEN Grow(GetAllocatedPageCount(S, memorySize))
               ELSE TakeFromList(S, memorySize, index, blockCount, dbg)
    IN Locked(GetIndex(memorySize))

\* PageSpan::CanBeRecycled as CentralCache::Deallocate uses it: the block just
\* pushed is counted back, and the run is recyclable when none is left out
CanBeRecycled(ps) ==
    LET after == PageSpan_Deallocate(ps) IN
    [ps |-> after, yes |-> after.allocatedUnitCount = 0]

\* a purge that leaves the class list as it is
PurgeRun_KeepsAll(S, index, ps, memorySize, dbg) == S

\* the purge walk of Deallocate: unlink every block of the class list that
\* lies in [pageStart, pageEnd).  The walk reads each link before it rewrites
\* an earlier one, so it visits the list as it stood: the blocks kept stay in
\* order, each relinked to the next one kept.
PurgeRun(S, index, ps, memorySize, dbg) ==
    LET pageEnd == ps.data + ps.size
        shouldRemove(current) == current >= ps.data /\ current + memorySize <= pageEnd
        Unlink(kept, removed) ==
            IF AssertFails(dbg, \A i \in 1..Len(removed) :
                                   IsInCharge(ps, MemorySpan(removed[i], memorySize)))
            THEN Fail(S, "aborted")
            ELSE [S EXCEPT !.mem = [x \in DOMAIN S.mem |->
                                       IF \E i \in 1..Len(kept) : kept[i] = x
                                       THEN LET i == CHOOSE j \in 1..Len(kept) : kept[j] = x
                                            IN IF i < Len(kept) THEN kept[i + 1] ELSE NULL
                                       ELSE S.mem[x]],
                           !.fl[index] = IF Len(kept) = 0 THEN NULL ELSE kept[1],
                           !.fls[index] = @ - Len(removed)]
        Walked(w) ==
            IF w.at # NULL THEN Fail(S, IF Readable(S.vec, w.at) THEN "hung" ELSE "crashed")
            ELSE Unlink(SelectSeq(w.nodes, LAMBDA c : ~shouldRemove(c)),
                        SelectSeq(w.nodes, shouldRemove))
    IN Walked(ListWalk(S.mem, S.vec, S.fl[index], Cardinality(DOMAIN S.mem) + 1))

\* one round of the loop of Deallocate over the returned chain; X = [S, cur],
\* cur the block the round takes (currentSpan)
ReturnOne(X, memorySize, index, dbg) ==
    LET S == X.S
        currentSpan == X.cur
    IN
    IF currentSpan = NULL \/ S.st # "running" THEN X
    ELSE IF ~Readable(S.vec, currentSpan) THEN [X EXCEPT !.S = Fail(S, "crashed")]
    ELSE IF AssertFails(dbg, SizeClassAt(index) = memorySize) THEN [X EXCEPT !.S = Fail(S, "aborted")]
    ELSE
    LET nextSpan == Read(S.mem, currentSpan)
        \* S1: the block is pushed; key: its span record; r: the record counted back
        Recycle(S1, key, r) ==
            LET S2 == [S1 EXCEPT !.pm[index][key] = r.ps]
                page == MemorySpan(r.ps.data, r.ps.size)
                Release(S3) ==
                    IF S3.st # "running" THEN [X EXCEPT !.S = S3]
                    ELSE [S |-> DeallocatePage([S3 EXCEPT !.pm[index] = MapErase(@, key),
                                                          !.gc[index] = Max(@ \div 2, 1)],
                                               page, dbg),
                          cur |-> nextSpan]
            IN IF ~r.yes THEN [S |-> S2, cur |-> nextSpan]
               ELSE IF AssertFails(dbg, r.ps.unitSize = memorySize) THEN [X EXCEPT !.S = Fail(S2, "aborted")]
               ELSE Release(PurgeRun(S2, index, r.ps, memorySize, dbg))
        Record(S1, key) ==
            IF key = NULL THEN [X EXCEPT !.S = Fail(S1, IF dbg THEN "aborted" ELSE "crashed")]
            ELSE IF AssertFails(dbg, IsInCharge(S1.pm[index][key], MemorySpan(currentSpan, memorySize)))
            THEN [X EXCEPT !.S = Fail(S1, "aborted")]
            ELSE IF AssertFails(dbg, S1.pm[index][key].allocatedUnitCount > 0)
            THEN [X EXCEPT !.S = Fail(S1, "aborted")]
            ELSE Recycle(S1, key, CanBeRecycled(S1.pm[index][key]))
        Pushed(S1) == Record(S1, SpanKeyOf(S1.pm[index], currentSpan))
    IN Pushed([S EXCEPT !.mem = Write(S.mem, currentSpan, S.fl[index]),
                        !.fl[index] = currentSpan,
                        !.fls[index] = @ + 1])

\* rounds lo..hi of that loop (split in halves to keep the evaluation shallow)
RECURSIVE ReturnLoop(_, _, _, _, _, _)
ReturnLoop(X, memorySize, index, dbg, lo, hi) ==
    IF lo > hi THEN X
    ELSE IF lo = hi THEN ReturnOne(X, memorySize, index, dbg)
    ELSE LET Then(L) ==
                 IF L.S.st # "running" \/ L.cur = NULL THEN L
                 ELSE ReturnLoop(L, memorySize, index, dbg, ((lo + hi) \div 2) + 1, hi)
         IN Then(ReturnLoop(X, memorySize, index, dbg, lo, (lo + hi) \div 2))

\* the loop runs until it meets a null link; a chain that has none never ends
ReturnChain(S, memoryList, memorySize, index, dbg) ==
    LET End(X) == IF X.S.st = "running" /\ X.cur # NULL THEN Fail(X.S, "hung") ELSE X.S
    IN End(ReturnLoop([S |-> S, cur |-> memoryList], memorySize, index, dbg,
                      1, Cardinality(DOMAIN S.mem) + 1))

CentralCache_Deallocate(S, memoryList, memorySize, dbg) ==
    IF AssertFails(dbg, memoryList # NULL) THEN Fail(S, "aborted")
    ELSE IF memorySize > MAX_CACHED_UNIT_SIZE
    THEN DeallocateUnit(S, MemorySpan(memoryList, memorySize))
    ELSE LET Locked(index) ==
                 ReturnChain(Acquire(S, ClassFlag(index)), memoryList, memorySize, index, dbg)
         IN Locked(GetIndex(memorySize))

----------------------------------------------------------------------------
(* ThreadCache: T is one thread's [fl, fls, nac] = freeList_,              *)
(* freeListSize_, nextAllocateCount_                                       *)

ComputeAllocateCount(T, size) ==
    LET minBlocks == 16
        maxBlocks == IF size <= 128 THEN 256 ELSE IF size <= 1024 THEN 128 ELSE 64
        Count(index, result) ==
            [T |-> [T EXCEPT !.nac[index] =
                        Min(Min(Min(result * 2, maxBlocks),
                                (MAX_FREE_BYTES_PER_LIST \div size) \div 2),
                            MAX_UNIT_COUNT)],
             count |-> result]
        At(index) ==
            IF index >= CACHE_LIST_SIZE THEN [T |-> T, count |-> 1]
            ELSE Count(index, Max(T.nac[index], minBlocks))
    IN At(GetIndex(size))

\* the tail search of FetchFromCentralCache: stops at the first null word or
\* after blockCount nodes; following a link to an unreadable address faults
ChainEnd(S, memoryList, blockCount) ==
    LET End(w) ==
            IF Len(w.nodes) = blockCount \/ (Len(w.nodes) > 0 /\ w.at = NULL)
            THEN [st |-> "running", end |-> w.nodes[Len(w.nodes)]]
            ELSE [st |-> "crashed", end |-> w.at]
    IN End(ListWalk(S.mem, S.vec, memoryList, blockCount))

NoBlockResult(S, T) == [S |-> S, T |-> T, ok |-> FALSE, res |-> NULL]

FetchFromCentralCache(S, T, memorySize, env, dbg) ==
    IF AssertFails(dbg, ~GetIndexAsserts(memorySize)) THEN NoBlockResult(Fail(S, "aborted"), T)
    ELSE
    LET \* c: the batch size and the counters; a: what CentralCache handed out;
        \* e: the end of that chain
        Splice(c, a, index, e) ==
            IF e.st # "running" THEN NoBlockResult(Fail(a.S, e.st), c.T)
            ELSE LET memoryList == a.res
                     mem1 == Write(a.S.mem, e.end, c.T.fl[index])
                 IN [S |-> [a.S EXCEPT !.mem = mem1],
                     T |-> [c.T EXCEPT !.fl[index] = Read(mem1, memoryList),
                                       !.fls[index] = @ + (c.count - 1)],
                     ok |-> TRUE, res |-> memoryList]
        Fetched(c, a) ==
            IF a.S.st # "running" \/ ~a.ok THEN NoBlockResult(a.S, c.T)
            ELSE Splice(c, a, GetIndex(memorySize), ChainEnd(a.S, a.res, c.count))
        Counted(c) == Fetched(c, CentralCache_Allocate(S, memorySize, c.count, env, dbg))
    IN Counted(ComputeAllocateCount(T, memorySize))

\* Allocate that works out the batch to fetch before it looks at the size
Allocate_CountsFirst(S, T, rawSize, env, dbg) ==
    LET Pop(index, result) ==
            IF ~Readable(S.vec, result) THEN NoBlockResult(Fail(S, "crashed"), T)
            ELSE [S |-> S,
                  T |-> [T EXCEPT !.fl[index] = Read(S.mem, result), !.fls[index] = @ - 1],
                  ok |-> TRUE, res |-> result]
        Sized(c, memorySize, index) ==
            IF rawSize = 0 THEN NoBlockResult(S, c.T)
            ELSE IF memorySize <= MAX_CACHED_UNIT_SIZE /\ T.fl[index] # NULL
            THEN Pop(index, T.fl[index])
            ELSE FetchFromCentralCache(S, T, memorySize, env, dbg)
    IN Sized(ComputeAllocateCount(T, GetSizeClass(rawSize)), GetSizeClass(rawSize),
             GetIndex(GetSizeClass(rawSize)))

\* Allocate that goes to CentralCache whatever its own list holds
Allocate_AlwaysFetches(S, T, rawSize, env, dbg) ==
    IF rawSize = 0 THEN NoBlockResult(S, T)
    ELSE FetchFromCentralCache(S, T, GetSizeClass(rawSize), env, dbg)

ThreadCache_Allocate(S, T, rawSize, env, dbg) ==
    IF rawSize = 0 THEN NoBlockResult(S, T)
    ELSE
    LET Pop(index, result) ==
            IF ~Readable(S.vec, result) THEN NoBlockResult(Fail(S, "crashed"), T)
            ELSE [S |-> S,
                  T |-> [T EXCEPT !.fl[index] = Read(S.mem, result), !.fls[index] = @ - 1],
                  ok |-> TRUE, res |-> result]
        Listed(memorySize, index) ==
            IF T.fl[index] # NULL THEN Pop(index, T.fl[index])
            ELSE FetchFromCentralCache(S, T, memorySize, env, dbg)
        Sized(memorySize) ==
            IF memorySize > MAX_CACHED_UNIT_SIZE
            THEN FetchFromCentralCache(S, T, memorySize, env, dbg)
            ELSE Listed(memorySize, GetIndex(memorySize))
    IN Sized(GetSizeClass(rawSize))

\* a flush walk that stops one node early
LastNodeToRemove_OneShort(S, head, freeBlockSize) ==
    LET Last(w) ==
            IF Len(w.nodes) = freeBlockSize - 1 /\ freeBlockSize > 1
            THEN [st |-> "running", short |-> FALSE, node |-> w.nodes[freeBlockSize - 1]]
            ELSE IF w.at = NULL THEN [st |-> "running", short |-> TRUE, node |-> NULL]
            ELSE [st |-> "crashed", short |-> FALSE, node |-> w.at]
    IN Last(ListWalk(S.mem, S.vec, head, freeBlockSize - 1))

\* the flush walk of Deallocate from the list head: the node freeBlockSize - 1
\* links on, unless a null link comes first (short)
LastNodeToRemove(S, head, freeBlockSize) ==
    LET Last(w) ==
            IF Len(w.nodes) = freeBlockSize
            THEN [st |-> "running", short |-> FALSE, node |-> w.nodes[freeBlockSize]]
            ELSE IF w.at = NULL THEN [st |-> "running", short |-> TRUE, node |-> NULL]
            ELSE [st |-> "crashed", short |-> FALSE, node |-> w.at]
    IN Last(ListWalk(S.mem, S.vec, head, freeBlockSize))

\* a cap test that lets the list grow one block further
OverCap_OneLate(size, memorySize) ==
    size < 0 \/ (size - 1) * memorySize > MAX_FREE_BYTES_PER_LIST

\* freeListSize_ is a size_t: a negative model value is a wrapped one, whose
\* product with memorySize is far above the cap
OverCap(size, memorySize) == size < 0 \/ size * memorySize > MAX_FREE_BYTES_PER_LIST

\* the flush of Deallocate, once the push has taken the list over the cap:
\* sever the first half of the list and hand it to CentralCache
FlushHalf(S1, T1, index, memorySize, dbg) ==
    LET freeBlockSize == T1.fls[index] \div 2
        blockToFree == T1.fl[index]
        \* a wrapped length: the walk runs until a null link or for ever
        Endless(w) ==
            [S |-> IF w.at = NULL THEN (IF dbg THEN Fail(S1, "aborted") ELSE S1)
                   ELSE Fail(S1, IF Readable(S1.vec, w.at) THEN "hung" ELSE "crashed"),
             T |-> T1]
        Returned(T2, S3) ==
            [S |-> S3,
             T |-> IF S3.st = "running"
                   THEN [T2 EXCEPT !.nac[index] = Max(@ \div 2, 4)] ELSE T2]
        Sever(w) ==
            IF w.st # "running" THEN [S |-> Fail(S1, w.st), T |-> T1]
            ELSE IF w.short
            THEN \* "Free list is shorter than expected!"
                 [S |-> IF dbg THEN Fail(S1, "aborted") ELSE S1, T |-> T1]
            ELSE IF ~Readable(S1.vec, w.node) THEN [S |-> Fail(S1, "crashed"), T |-> T1]
            ELSE Returned([T1 EXCEPT !.fl[index] = Read(S1.mem, w.node),
                                     !.fls[index] = @ - freeBlockSize],
                          CentralCache_Deallocate([S1 EXCEPT !.mem = Write(S1.mem, w.node, NULL)],
                                                  blockToFree, memorySize, dbg))
    IN IF T1.fls[index] < 0
       THEN Endless(ListWalk(S1.mem, S1.vec, T1.fl[index], Cardinality(DOMAIN S1.mem) + 2))
       ELSE Sever(LastNodeToRemove(S1, blockToFree, freeBlockSize))

\* Deallocate that tests the pointer alone before it pushes
Deallocate_NoSizeCheck(S, T, ptr, rawSize, dbg) ==
    IF ptr = NULL THEN [S |-> S, T |-> T]
    ELSE
    LET Pushed(memorySize, index, S1, T1) ==
            IF ~OverCap(T1.fls[index], memorySize) THEN [S |-> S1, T |-> T1]
            ELSE FlushHalf(S1, T1, index, memorySize, dbg)
        Push(memorySize, index) ==
            Pushed(memorySize, index,
                   [S EXCEPT !.mem = Write(S.mem, ptr, T.fl[index])],
                   [T EXCEPT !.fl[index] = ptr, !.fls[index] = @ + 1])
        Sized(memorySize) ==
            IF memorySize > MAX_CACHED_UNIT_SIZE
            THEN [S |-> CentralCache_Deallocate(S, ptr, memorySize, dbg), T |-> T]
            ELSE Push(memorySize, GetIndex(memorySize))
    IN Sized(GetSizeClass(rawSize))

ThreadCache_Deallocate(S, T, ptr, rawSize, dbg) ==
    IF rawSize = 0 \/ ptr = NULL THEN [S |-> S, T |-> T]
    ELSE
    LET Pushed(memorySize, index, S1, T1) ==
            IF ~OverCap(T1.fls[index], memorySize) THEN [S |-> S1, T |-> T1]
            ELSE FlushHalf(S1, T1, index, memorySize, dbg)
        Push(memorySize, index) ==
            Pushed(memorySize, index,
                   [S EXCEPT !.mem = Write(S.mem, ptr, T.fl[index])],
                   [T EXCEPT !.fl[index] = ptr, !.fls[index] = @ + 1])
        Sized(memorySize) ==
            IF memorySize > MAX_CACHED_UNIT_SIZE
            THEN [S |-> CentralCache_Deallocate(S, ptr, memorySize, dbg), T |-> T]
            ELSE Push(memorySize, GetIndex(memorySize))
    IN Sized(GetSizeClass(rawSize))

----------------------------------------------------------------------------
(* State, initial state and the operations of user code                    *)

SOf == [st |-> status, mem |-> mem, heap |-> heap,
        fl |-> freeLists_, fls |-> freeListSizes_, pm |-> pageMaps_,
        gc |-> nextAllocateMemoryGroupCount_,
        store |-> freePageStore_, map |-> freePageMap_, vec |-> pageVector_,
        stop |-> isStop_, os |-> platform, freed |-> unmapped, lk |-> {}]

TOf(t) == [fl |-> freeList_[t], fls |-> freeListSize_[t], nac |-> nextAllocateCount_[t]]

\* the state after an operation of thread t that left S and T
Commit(S, T, t) ==
    /\ status' = S.st
    /\ mem' = S.mem
    /\ heap' = S.heap
    /\ freeLists_' = S.fl
    /\ freeListSizes_' = S.fls
    /\ pageMaps_' = S.pm
    /\ nextAllocateMemoryGroupCount_' = S.gc
    /\ freePageStore_' = S.store
    /\ freePageMap_' = S.map
    /\ pageVector_' = S.vec
    /\ isStop_' = S.stop
    /\ unmapped' = S.freed
    /\ freeList_' = [freeList_ EXCEPT ![t] = T.fl]
    /\ freeListSize_' = [freeListSize_ EXCEPT ![t] = T.fls]
    /\ nextAllocateCount_' = [nextAllocateCount_ EXCEPT ![t] = T.nac]

NoProbe == [n |-> 0, cls |-> 0, idx |-> 0]
\* a thread outside every guarded call
Idle == [at |-> "idle", op |-> "none", index |-> 0, left |-> 0, held |-> << >>]
NoRet == [op |-> "none", n |-> 0, ok |-> FALSE, addr |-> NULL, locks |-> {}]

InitAllocator ==
    /\ status = "running"
    /\ mem = << >>
    /\ freeList_ = [t \in Threads |-> [i \in Indexes |-> NULL]]
    /\ freeListSize_ = [t \in Threads |-> [i \in Indexes |-> 0]]
    /\ nextAllocateCount_ = [t \in Threads |-> [i \in Indexes |-> 0]]
    /\ freeLists_ = [i \in Indexes |-> NULL]
    /\ freeListSizes_ = [i \in Indexes |-> 0]
    /\ pageMaps_ = [i \in Indexes |-> << >>]
    /\ nextAllocateMemoryGroupCount_ = [i \in Indexes |-> 0]
    /\ freePageStore_ = << >>
    /\ freePageMap_ = << >>
    /\ pageVector_ = << >>
    /\ isStop_ = FALSE
    /\ unmapped = << >>
    /\ statusLists_ = [i \in Indexes |-> FALSE]
    /\ mutex_ = 0
    /\ pc = [t \in Threads |-> Idle]
    /\ heap = [c \in Chunks |-> "free"]
    /\ live = [s \in Slots |-> NoBlock]
    /\ ops = 0
    /\ ret = NoRet

Init ==
    /\ build \in {"debug", "release"}
    /\ platform = "posix"
    /\ mode = "mix"
    /\ InitAllocator
    /\ probe = NoProbe

InitChurn ==
    /\ build \in {"debug", "release"}
    /\ platform = "posix"
    /\ mode = "churn"
    /\ InitAllocator
    /\ probe = NoProbe

Debug == build = "debug"
Cached(n) == GetSizeClass(n) <= MAX_CACHED_UNIT_SIZE
LiveSlots == {s \in Slots : live[s] # NoBlock}
FreeSlots == Slots \ LiveSlots
FirstFreeSlot == SetMin(FreeSlots)
Step == ops' = IF mode \in {"churn", "odd", "search"} THEN ops ELSE ops + 1

\* user code fills a block with its pattern before it asks for another one;
\* in "mix" mode it does any MaxOps operations on at most MaxLive blocks, in
\* "churn" mode it hands single ChurnSize blocks from thread to
\* thread, one at a time, for as long as it likes
MayAllocate(n) ==
    /\ status = "running"
    /\ FreeSlots # {}
    /\ \A s \in LiveSlots : live[s].stamped
    /\ IF mode = "mix" THEN ops < MaxOps /\ n \in ReqSizes
       ELSE IF mode = "reuse" THEN ops < MaxReuseOps /\ n \in ReuseSizes
       ELSE IF mode = "flush" THEN ops < MaxFlushOps /\ n \in FlushSizes
       ELSE n = (IF mode = "odd" THEN OddSize ELSE ChurnSize) /\ LiveSlots = {}
MayOperate ==
    /\ status = "running"
    /\ mode = "mix" => ops < MaxOps
    /\ mode = "reuse" => ops < MaxReuseOps
    /\ mode = "flush" => ops < MaxFlushOps
\* threads are interchangeable: the one that acts first is called thread 1
MayRun(t) == pc[t].at # "exited" /\ (t = 1 \/ ops > 0 \/ mode \in {"churn", "odd"})

\* what the first word of a fresh malloc chunk may hold: nothing, stale user
\* bytes, or a stale pointer to (or into) a block user code holds
Garbage ==
    {NULL, Pattern(2)}
        \cup {live[s].addr : s \in {x \in LiveSlots : Cached(live[x].n)}}
        \cup {live[s].addr + InteriorOffset : s \in {x \in LiveSlots : Cached(live[x].n)}}

\* the word user code sees at an address inside one of its stamped blocks
WordAt(a) ==
    IF a \in DOMAIN mem THEN mem[a]
    ELSE IF \E s \in LiveSlots : live[s].stamped /\ a >= live[s].addr /\ a < live[s].addr + live[s].n
    THEN Pattern(CHOOSE s \in LiveSlots : live[s].stamped /\ a >= live[s].addr /\ a < live[s].addr + live[s].n)
    ELSE 0

Allocate(t, n) ==
    /\ MayAllocate(n) /\ MayRun(t)
    /\ \E chunk \in IF Cached(n) THEN {NULL}
                    ELSE IF \E c \in Chunks : heap[c] = "free"
                         THEN {c \in Chunks : heap[c] = "free"} ELSE {NULL},
          firstWord \in IF Cached(n) THEN {NULL} ELSE Garbage,
          gap \in IF Len(pageVector_) > 0 THEN {0, PAGE_SIZE} ELSE {0} :
        LET env == [gap |-> gap, chunk |-> chunk, firstWord |-> firstWord]
            S0 == [SOf EXCEPT !.mem = IF firstWord > 0 /\ firstWord \notin DOMAIN mem
                                      THEN Write(mem, firstWord, WordAt(firstWord)) ELSE mem]
            Returned(r, got) ==
                \* the placement matters only to a call that maps a further region
                /\ gap = 0 \/ Len(r.S.vec) > Len(pageVector_)
                /\ Commit(r.S, r.T, t)
                /\ live' = IF got
                           THEN [live EXCEPT ![FirstFreeSlot] = [addr |-> r.res, n |-> n, stamped |-> FALSE]]
                           ELSE live
                /\ ret' = [op |-> "Allocate", n |-> n, ok |-> got,
                           addr |-> IF got THEN r.res ELSE NULL, locks |-> r.S.lk]
            Called(r) == Returned(r, r.ok /\ r.S.st = "running")
        IN Called(ThreadCache_Allocate(S0, TOf(t), n, env, Debug))
    /\ Step
    /\ UNCHANGED <<lockVars, build, platform, mode, probe>>

\* the state and the record of the call after a Deallocate that left r
Freed(r, t, op, n, addr) ==
    /\ Commit(r.S, r.T, t)
    /\ ret' = [op |-> op, n |-> n, ok |-> r.S.st = "running", addr |-> addr, locks |-> r.S.lk]

\* Deallocate(a, n) of a block user code holds, with the size it asked for
Deallocate(t, s) ==
    /\ MayOperate /\ MayRun(t)
    /\ s \in LiveSlots
    /\ Freed(ThreadCache_Deallocate(SOf, TOf(t), live[s].addr, live[s].n, Debug),
             t, "Deallocate", live[s].n, live[s].addr)
    /\ live' = [live EXCEPT ![s] = NoBlock]
    /\ Step
    /\ UNCHANGED <<lockVars, build, platform, mode, probe>>

\* Deallocate(nullptr, n)
DeallocateNull(t, n) ==
    /\ MayOperate /\ MayRun(t) /\ mode = "mix"
    /\ n \in NullSizes
    /\ Freed(ThreadCache_Deallocate(SOf, TOf(t), NULL, n, Debug),
             t, "DeallocateNull", n, NULL)
    /\ Step
    /\ UNCHANGED <<lockVars, build, platform, mode, probe, live>>

\* Deallocate(a, 0) of a block user code holds: it goes on holding it
DeallocateZero(t, s) ==
    /\ MayOperate /\ MayRun(t) /\ mode = "mix"
    /\ s \in LiveSlots
    /\ Freed(ThreadCache_Deallocate(SOf, TOf(t), live[s].addr, 0, Debug),
             t, "DeallocateZero", 0, live[s].addr)
    /\ Step
    /\ UNCHANGED <<lockVars, build, platform, mode, probe, live>>

\* user code fills the block it holds in slot s with its pattern
UserWrite(s) ==
    /\ status = "running"
    /\ s \in LiveSlots
    /\ ~live[s].stamped
    /\ mem' = [x \in DOMAIN mem \cup {live[s].addr} |->
                 IF x >= live[s].addr /\ x < live[s].addr + live[s].n
                 THEN Pattern(s) ELSE mem[x]]
    /\ live' = [live EXCEPT ![s].stamped = TRUE]
    /\ ret' = [op |-> "UserWrite", n |-> live[s].n, ok |-> TRUE, addr |-> live[s].addr,
               locks |-> {}]
    /\ UNCHANGED <<lockVars, build, platform, mode, status, tcVars, ccVars, pcVars, unmapped, heap, ops, probe>>

Next ==
    \/ \E t \in Threads, n \in ReqSizes : Allocate(t, n)
    \/ \E t \in Threads, s \in Slots : Deallocate(t, s)
    \/ \E t \in Threads, n \in NullSizes : DeallocateNull(t, n)
    \/ \E t \in Threads, s \in Slots : DeallocateZero(t, s)
    \/ \E s \in Slots : UserWrite(s)

Spec == Init /\ [][Next]_vars

\* thread 1 allocates, thread 2 frees what thread 1 allocated
Producer == SetMin(Threads)
Consumer == SetMax(Threads)

NextChurn ==
    \/ Allocate(Producer, ChurnSize)
    \/ \E s \in Slots : Deallocate(Consumer, s)
    \/ \E s \in Slots : UserWrite(s)

SpecChurn == InitChurn /\ [][NextChurn]_vars

\* thread 1 allocates blocks of OddSize bytes, thread 2 frees them
InitOdd ==
    /\ build \in {"debug", "release"}
    /\ platform = "posix"
    /\ mode = "odd"
    /\ InitAllocator
    /\ probe = NoProbe

NextOdd ==
    \/ Allocate(Producer, OddSize)
    \/ \E s \in Slots : Deallocate(Consumer, s)
    \/ \E s \in Slots : UserWrite(s)

SpecOdd == InitOdd /\ [][NextOdd]_vars

\* one thread allocates blocks of a list, frees them and allocates again
InitReuse ==
    /\ build \in {"debug", "release"}
    /\ platform = "posix"
    /\ mode = "reuse"
    /\ InitAllocator
    /\ probe = NoProbe

NextReuse ==
    \/ \E n \in ReuseSizes : Allocate(Producer, n)
    \/ \E s \in Slots : Deallocate(Producer, s)
    \/ \E s \in Slots : UserWrite(s)

SpecReuse == InitReuse /\ [][NextReuse]_vars

\* one thread asks for blocks above and at the largest cached size and frees
\* them
InitFlush ==
    /\ build \in {"debug", "release"}
    /\ platform = "posix"
    /\ mode = "flush"
    /\ InitAllocator
    /\ probe = NoProbe

NextFlush ==
    \/ \E n \in FlushSizes : Allocate(Producer, n)
    \/ \E s \in Slots : Deallocate(Producer, s)
    \/ \E s \in Slots : UserWrite(s)

SpecFlush == InitFlush /\ [][NextFlush]_vars

\* thread t ends: its thread_local ThreadCache is destroyed.  The class
\* declares no destructor, and the implicit one of three arrays of pointers
\* and counts runs no code.
ThreadExit(t) ==
    /\ status = "running"
    /\ pc[t].at = "idle"
    /\ pc' = [pc EXCEPT ![t].at = "exited"]
    /\ UNCHANGED <<statusLists_, mutex_, dataVars>>

\* threads allocate and free blocks of a list and end when they like
NextExit ==
    \/ \E t \in Threads, n \in ReuseSizes : Allocate(t, n)
    \/ \E t \in Threads, s \in Slots : Deallocate(t, s)
    \/ \E s \in Slots : UserWrite(s)
    \/ \E t \in Threads : ThreadExit(t)

SpecExit == InitReuse /\ [][NextExit]_vars

----------------------------------------------------------------------------
(* CentralCache driven as the ThreadCaches drive it: a thread fetches a    *)
(* batch of a size class onto its list, and hands a leading part of its    *)
(* list back, null-terminated                                              *)

\* the sizes ThreadCache passes for requests of 28001..32768 bytes, and the
\* length of the batch a thread asks for when it first runs out of a class
CentralSizes == {GetSizeClass(n) : n \in {28001, 30000, 32768}}
BatchCounts == {ComputeAllocateCount([nac |-> [i \in Indexes |-> 0]], n).count : n \in CentralSizes}

InitCentral ==
    /\ build \in {"debug", "release"}
    /\ platform = "posix"
    /\ mode = "central"
    /\ InitAllocator
    /\ probe = NoProbe

MayCall == status = "running" /\ ops < MaxCentralOps

\* thread t fetches blockCount blocks and splices them onto its list;
\* ret.chain is what a walk of blockCount + 1 links from the returned head
\* finds before the splice
CentralAllocate(t, memorySize, blockCount) ==
    /\ MayCall /\ MayRun(t)
    /\ \E gap \in IF Len(pageVector_) > 0 THEN {0, PAGE_SIZE} ELSE {0} :
         LET index == GetIndex(memorySize)
             Spliced(a, e) ==
                 /\ gap = 0 \/ Len(a.S.vec) > Len(pageVector_)
                 /\ IF a.S.st = "running" /\ a.ok /\ e.st = "running"
                    THEN Commit([a.S EXCEPT !.mem = Write(a.S.mem, e.end, freeList_[t][index])],
                                [TOf(t) EXCEPT !.fl[index] = a.res, !.fls[index] = @ + blockCount],
                                t)
                    ELSE Commit(IF a.S.st = "running" /\ a.ok THEN Fail(a.S, e.st) ELSE a.S,
                                TOf(t), t)
                 /\ ret' = [op |-> "CentralAllocate", n |-> memorySize,
                            ok |-> a.ok /\ a.S.st = "running" /\ e.st = "running",
                            addr |-> a.res, locks |-> a.S.lk, count |-> blockCount,
                            chain |-> IF a.ok
                                      THEN ListWalk(a.S.mem, a.S.vec, a.res, blockCount + 1)
                                      ELSE [nodes |-> << >>, at |-> NULL]]
             Called(a) == Spliced(a, IF a.ok THEN ChainEnd(a.S, a.res, blockCount)
                                     ELSE [st |-> "running", end |-> NULL])
         IN Called(CentralCache_Allocate(SOf, memorySize, blockCount,
                                         [gap |-> gap, chunk |-> NULL, firstWord |-> NULL], Debug))
    /\ Step /\ UNCHANGED <<lockVars, build, platform, mode, live, probe>>

\* thread t hands back its list for the class of memorySize, or the first
\* half of it
CentralDeallocate(t, memorySize, half) ==
    /\ MayCall
    /\ freeListSize_[t][GetIndex(memorySize)] \div (IF half THEN 2 ELSE 1) >= 1
    /\ LET index == GetIndex(memorySize)
           k == freeListSize_[t][index] \div (IF half THEN 2 ELSE 1)
           memoryList == freeList_[t][index]
           Handed(w) ==
               LET Done(S) ==
                       /\ Commit(S, [TOf(t) EXCEPT !.fl[index] = Read(mem, w.node),
                                                   !.fls[index] = @ - k], t)
                       /\ ret' = [op |-> "CentralDeallocate", n |-> memorySize,
                                  ok |-> S.st = "running", addr |-> memoryList,
                                  locks |-> S.lk, count |-> k]
               IN /\ w.st = "running" /\ ~w.short
                  /\ Done(CentralCache_Deallocate([SOf EXCEPT !.mem = Write(mem, w.node, NULL)],
                                                  memoryList, memorySize, Debug))
       IN Handed(LastNodeToRemove(SOf, memoryList, k))
    /\ Step /\ UNCHANGED <<lockVars, build, platform, mode, live, probe>>

NextCentral ==
    \/ \E t \in Threads, n \in CentralSizes, c \in BatchCounts : CentralAllocate(t, n, c)
    \/ \E t \in Threads, n \in CentralSizes, half \in BOOLEAN : CentralDeallocate(t, n, half)

SpecCentral == InitCentral /\ [][NextCentral]_vars

\* the lengths of the first two batches a thread asks for in a class
GroupBatches ==
    LET Second(first, n) == {first.count, ComputeAllocateCount(first.T, n).count}
    IN UNION {Second(ComputeAllocateCount([nac |-> [i \in Indexes |-> 0]], n), n) : n \in {ChurnSize}}

\* one thread fetches batches of one class until the class list runs dry and
\* CentralCache takes further runs, and hands its blocks back
NextGroup ==
    \/ \E c \in GroupBatches : CentralAllocate(Producer, ChurnSize, c)
    \/ \E half \in BOOLEAN : CentralDeallocate(Producer, ChurnSize, half)

SpecGroup == InitCentral /\ [][NextGroup]_vars

----------------------------------------------------------------------------
(* PageCache driven as CentralCache drives it: runs of the page counts     *)
(* GetAllocatedPageCount asks for are taken, kept in the span map of a     *)
(* class, and handed back whole; Stop may be called at any time            *)

PageClass == GetIndex(MAX_CACHED_UNIT_SIZE)
PageCounts == {GetAllocatedPageCount([gc |-> [i \in Indexes |-> g]], MAX_CACHED_UNIT_SIZE).count :
                  g \in {1, 2}}

InitPage ==
    /\ build \in {"debug", "release"}
    /\ platform \in {"posix", "windows"}
    /\ mode = "page"
    /\ InitAllocator
    /\ probe = NoProbe

MayPage ==
    /\ status = "running"
    /\ IF mode = "search" THEN Len(pageVector_) < MaxRegions ELSE ops < MaxPageOps

PageAllocate(pageCount) ==
    /\ MayPage
    /\ \E place \in {0, Below, Refused} :
         LET Got(r) ==
                 /\ \/ place = 0
                    \/ place = Below /\ Len(r.S.vec) > Len(pageVector_) /\ Len(pageVector_) > 0
                    \/ place = Refused /\ ~r.ok
                 /\ Commit(IF r.ok /\ r.S.st = "running"
                           THEN [r.S EXCEPT !.pm[PageClass] =
                                    MapEmplace(@, r.span.data,
                                               PageSpan(r.span, MAX_CACHED_UNIT_SIZE))]
                           ELSE r.S,
                           TOf(Producer), Producer)
                 /\ ret' = [op |-> "AllocatePage", n |-> pageCount,
                            ok |-> r.ok /\ r.S.st = "running", addr |-> r.span.data,
                            locks |-> r.S.lk, count |-> r.span.size \div PAGE_SIZE,
                            refused |-> place = Refused]
         IN Got(AllocatePage(SOf, pageCount, place))
    /\ Step /\ UNCHANGED <<lockVars, build, platform, mode, live, probe>>

\* the j-th run on loan, in address order, goes back
PageDeallocate(j) ==
    /\ MayPage
    /\ j <= Cardinality(Keys(pageMaps_[PageClass]))
    /\ LET Back(key) ==
               LET Done(S) ==
                       /\ Commit(S, TOf(Producer), Producer)
                       /\ ret' = [op |-> "DeallocatePage",
                                  n |-> pageMaps_[PageClass][key].size \div PAGE_SIZE,
                                  ok |-> S.st = "running", addr |-> key, locks |-> S.lk,
                                  count |-> pageMaps_[PageClass][key].size \div PAGE_SIZE,
                                  refused |-> FALSE]
               IN Done(DeallocatePage([SOf EXCEPT !.pm[PageClass] = MapErase(@, key)],
                                      MemorySpan(key, pageMaps_[PageClass][key].size), Debug))
       IN Back(CHOOSE k \in Keys(pageMaps_[PageClass]) :
                   Cardinality({x \in Keys(pageMaps_[PageClass]) : x <= k}) = j)
    /\ Step /\ UNCHANGED <<lockVars, build, platform, mode, live, probe>>

PageStop ==
    /\ MayPage
    /\ LET Done(S) ==
               /\ Commit(S, TOf(Producer), Producer)
               /\ ret' = [op |-> "Stop", n |-> 0, ok |-> TRUE, addr |-> NULL, locks |-> S.lk,
                          count |-> 0, refused |-> FALSE]
       IN Done(Stop(SOf))
    /\ Step /\ UNCHANGED <<lockVars, build, platform, mode, live, probe>>

NextPage ==
    \/ \E n \in PageCounts : PageAllocate(n)
    \/ \E j \in 1..MaxPageOps : PageDeallocate(j)
    \/ PageStop

SpecPage == InitPage /\ [][NextPage]_vars

\* a caller of PageCache that takes one run, then single pages, and hands the
\* run back once at most MaxTail pages of the first region are still free.
\* The run leaves MAX_SEARCH_ITERATIONS pages of the first region.
SearchRun == PAGE_ALLOCATE_COUNT - MAX_SEARCH_ITERATIONS

InitSearch ==
    /\ build \in {"debug", "release"}
    /\ platform = "posix"
    /\ mode = "search"
    /\ InitAllocator
    /\ probe = NoProbe

TakeRun == pageVector_ = << >> /\ PageAllocate(SearchRun)

TakePage == pageVector_ # << >> /\ PageAllocate(1)

ReturnRun ==
    /\ OsBase \in Keys(pageMaps_[PageClass])
    /\ {k \in Keys(SOf.store) : k > MaxTail /\ SOf.store[k] # {}} = {}
    /\ PageDeallocate(1)

NextSearch ==
    \/ TakeRun
    \/ TakePage
    \/ ReturnRun

SpecSearch == InitSearch /\ [][NextSearch]_vars

----------------------------------------------------------------------------
(* The guards of CentralCache and PageCache, one step per acquisition and  *)
(* release.  pc[t] is where thread t stands in a call: at the guard of a   *)
(* class, inside it, at PageCache's mutex, inside PageCache, at the end of *)
(* the guarded scope.  Which branch a call takes is the caller's data,     *)
(* left open here.                                                         *)

\* the classes the threads meet on
LockIndexes == {GetIndex(n) : n \in CentralSizes}

InitLocks ==
    /\ build \in {"debug", "release"}
    /\ platform = "posix"
    /\ mode = "locks"
    /\ InitAllocator
    /\ probe = NoProbe

Without(held, lock) == SelectSeq(held, LAMBDA l : l # lock)

\* a thread enters CentralCache::Allocate or Deallocate (with a chain of n
\* blocks) for a cached size, or PageCache::Stop
Call(t, op, index, n) ==
    /\ pc[t].at = "idle"
    /\ pc' = [pc EXCEPT ![t] = [at |-> IF op = "Stop" THEN "lock" ELSE "guard", op |-> op,
                                index |-> IF op = "Stop" THEN 0 ELSE index,
                                left |-> IF op = "Deallocate" THEN n ELSE 0,
                                held |-> << >>]]
    /\ UNCHANGED <<statusLists_, mutex_, dataVars>>

\* a TestAndSet that takes the flag for free whatever it read
TestAndSet_NoSpin(t) ==
    /\ pc[t].at = "guard"
    /\ statusLists_' = [statusLists_ EXCEPT ![pc[t].index] = TRUE]
    /\ pc' = [pc EXCEPT ![t].at = "section", ![t].held = Append(@, ClassFlag(pc[t].index))]
    /\ UNCHANGED <<mutex_, dataVars>>

\* AtomicFlagGuard's constructor: one test_and_set; a set flag sends the
\* thread round the loop
TestAndSet(t) ==
    /\ pc[t].at = "guard"
    /\ statusLists_' = [statusLists_ EXCEPT ![pc[t].index] = TRUE]
    /\ pc' = IF statusLists_[pc[t].index] THEN pc
             ELSE [pc EXCEPT ![t].at = "section",
                             ![t].held = Append(@, ClassFlag(pc[t].index))]
    /\ UNCHANGED <<mutex_, dataVars>>

\* Allocate inside the guard: the fast path, or the slow path that calls
\* AllocatePage and slices what it gets
AllocateStep(t) ==
    /\ pc[t].op = "Allocate"
    /\ \/ /\ pc[t].at = "section"
          /\ \E slow \in BOOLEAN :
                pc' = [pc EXCEPT ![t].at = IF slow THEN "lock" ELSE "release"]
       \/ /\ pc[t].at = "slice"
          /\ pc' = [pc EXCEPT ![t].at = "release"]
    /\ UNCHANGED <<statusLists_, mutex_, dataVars>>

\* one round of the loop of Deallocate: a block is pushed and counted, and
\* the run it empties goes to DeallocatePage
DeallocateStep(t) ==
    /\ pc[t].op = "Deallocate" /\ pc[t].at = "section"
    /\ \E recycle \in BOOLEAN :
          pc' = [pc EXCEPT ![t].left = @ - 1,
                           ![t].at = IF recycle THEN "lock"
                                     ELSE IF pc[t].left = 1 THEN "release" ELSE "section"]
    /\ UNCHANGED <<statusLists_, mutex_, dataVars>>

\* std::lock_guard guard(mutex_)
LockMutex(t) ==
    /\ pc[t].at = "lock"
    /\ mutex_ = 0
    /\ mutex_' = t
    /\ pc' = [pc EXCEPT ![t].at = "page", ![t].held = Append(@, PageMutex)]
    /\ UNCHANGED <<statusLists_, dataVars>>

\* a return from PageCache that leaves the mutex locked
PageReturn_KeepsMutex(t) ==
    /\ pc[t].at = "page"
    /\ pc' = [pc EXCEPT ![t].at = IF pc[t].op = "Stop" THEN "idle"
                                  ELSE IF pc[t].op = "Allocate" THEN "slice"
                                  ELSE IF pc[t].left = 0 THEN "release" ELSE "section"]
    /\ UNCHANGED <<statusLists_, mutex_, dataVars>>

\* the return from AllocatePage, DeallocatePage or Stop: the lock_guard goes
\* out of scope
PageReturn(t) ==
    /\ pc[t].at = "page"
    /\ mutex_' = 0
    /\ pc' = [pc EXCEPT ![t].held = Without(@, PageMutex),
                        ![t].at = IF pc[t].op = "Stop" THEN "idle"
                                  ELSE IF pc[t].op = "Allocate" THEN "slice"
                                  ELSE IF pc[t].left = 0 THEN "release" ELSE "section"]
    /\ UNCHANGED <<statusLists_, dataVars>>

\* AtomicFlagGuard's destructor, at the return from Allocate or Deallocate
Release(t) ==
    /\ pc[t].at = "release"
    /\ statusLists_' = [statusLists_ EXCEPT ![pc[t].index] = FALSE]
    /\ pc' = [pc EXCEPT ![t] = Idle]
    /\ UNCHANGED <<mutex_, dataVars>>

NextLocks ==
    \/ \E t \in Threads, op \in {"Allocate", "Deallocate", "Stop"},
          i \in LockIndexes, n \in 1..MaxChain : Call(t, op, i, n)
    \/ \E t \in Threads : TestAndSet(t)
    \/ \E t \in Threads : AllocateStep(t)
    \/ \E t \in Threads : DeallocateStep(t)
    \/ \E t \in Threads : LockMutex(t)
    \/ \E t \in Threads : PageReturn(t)
    \/ \E t \in Threads : Release(t)

SpecLocks == InitLocks /\ [][NextLocks]_vars

\* what thread t does next inside a call it has made; making a call is up to
\* user code
ThreadStep(t) ==
    \/ TestAndSet(t)
    \/ AllocateStep(t)
    \/ DeallocateStep(t)
    \/ LockMutex(t)
    \/ PageReturn(t)
    \/ Release(t)

\* the scheduler keeps running every thread that can move: the spin loop
\* yields and retries, and neither test_and_set nor std::mutex queues its
\* waiters
SpecLocksFair == InitLocks /\ [][NextLocks]_vars /\ \A t \in Threads : WF_vars(ThreadStep(t))

----------------------------------------------------------------------------
(* The batch counter of one thread: ComputeAllocateCount at every refill,  *)
(* the halving at every flush, for raw sizes of two lists                  *)

CountSizes == {n \in ReqSizes : n > 0 /\ Cached(n)}

InitCount ==
    /\ build = "release"
    /\ platform = "posix"
    /\ mode = "count"
    /\ InitAllocator
    /\ probe = NoProbe

\* FetchFromCentralCache works out the batch for a request of n bytes
ComputeCount(n) ==
    /\ mode = "count" /\ n \in CountSizes
    /\ LET Counted(c) ==
               /\ nextAllocateCount_' = [nextAllocateCount_ EXCEPT ![Producer] = c.T.nac]
               /\ ret' = [op |-> "ComputeAllocateCount", n |-> n, ok |-> TRUE, addr |-> NULL,
                          locks |-> {}, count |-> c.count]
       IN Counted(ComputeAllocateCount(TOf(Producer), GetSizeClass(n)))
    /\ UNCHANGED <<lockVars, build, platform, mode, status, mem, freeList_, freeListSize_,
                   ccVars, pcVars, unmapped, heap, live, ops, probe>>

\* the end of a flush in Deallocate of n bytes
HalveCount(n) ==
    /\ mode = "count" /\ n \in CountSizes
    /\ nextAllocateCount_' =
          [nextAllocateCount_ EXCEPT ![Producer][GetIndex(GetSizeClass(n))] = Max(@ \div 2, 4)]
    /\ ret' = [op |-> "Flush", n |-> n, ok |-> TRUE, addr |-> NULL, locks |-> {}, count |-> 0]
    /\ UNCHANGED <<lockVars, build, platform, mode, status, mem, freeList_, freeListSize_,
                   ccVars, pcVars, unmapped, heap, live, ops, probe>>

NextCount ==
    \/ \E n \in CountSizes : ComputeCount(n)
    \/ \E n \in CountSizes : HalveCount(n)

SpecCount == InitCount /\ [][NextCount]_vars

----------------------------------------------------------------------------
(* The size-class functions on every raw size up to MaxProbe               *)

ProbeOf(n) == [n |-> n, cls |-> GetSizeClass(n), idx |-> GetIndex(GetSizeClass(n))]

InitSize ==
    /\ build = "release"
    /\ platform = "posix"
    /\ mode = "mix"
    /\ InitAllocator
    /\ probe = ProbeOf(1)

ProbeNext ==
    /\ probe.n < MaxProbe
    /\ probe' = ProbeOf(probe.n + 1)
    /\ UNCHANGED <<lockVars, build, platform, mode, status, mem, tcVars, ccVars, pcVars, unmapped,
                 heap, live, ops, ret>>

SpecSize == InitSize /\ [][ProbeNext]_vars

----------------------------------------------------------------------------
(* MemoryPool_v1: MemoryPool<T, BlockSize> as std::list<int, MemoryPool<int,*)
(* 123>> uses it, rebound to the node type of the list.  The pool object,  *)
(* the heap it draws on and the slots its user holds are the fields of     *)
(* probe: currentBlock_, currentSlot_, lastSlot_, freeSlot_; word, the     *)
(* pointer-sized word at an address; heap, what operator new has handed    *)
(* out at each chunk; out, the [addr, n] the user holds; freed, the slots   *)
(* deallocated and not handed out since, in the order of deallocation      *)

BlockSize == 123
\* sizeof(std::_List_node<int>): two links and the int, padded
sizeofT == 24
sizeofPointer == 8
\* union Slot { T element; Slot* next; }
sizeofSlot == ((Max(sizeofT, sizeofPointer) + sizeofPointer - 1) \div sizeofPointer) * sizeofPointer
paddedSlotSize == ((sizeofSlot + sizeofPointer - 1) \div sizeofPointer) * sizeofPointer
alignedBlockSize == (BlockSize \div paddedSlotSize) * paddedSlotSize
slotsPerBlock == alignedBlockSize \div paddedSlotSize - 1

\* addresses operator new may return
PoolChunks == {HeapBase + c * ChunkStride : c \in 0..2}
\* what the user writes over a slot it holds; not an address
UserData == Pattern(2)
\* element counts passed to allocate
PoolCounts == {1, 2}

InitPool ==
    /\ build \in {"debug", "release"}
    /\ platform = "posix"
    /\ mode = "pool"
    /\ InitAllocator
    /\ probe = [currentBlock_ |-> NULL, currentSlot_ |-> NULL, lastSlot_ |-> NULL,
                freeSlot_ |-> NULL, word |-> << >>,
                heap |-> [c \in PoolChunks |-> "free"], out |-> {}, freed |-> << >>]

PoolWrite(P, a, v) == [P EXCEPT !.word = Write(P.word, a, v)]

\* a block that keeps its first slot for slots as well
allocateBlock_NoLinkSlot(P, newBlock) ==
    [PoolWrite(P, newBlock, P.currentBlock_)
        EXCEPT !.heap[newBlock] = "block",
               !.currentBlock_ = newBlock,
               !.currentSlot_ = newBlock,
               !.lastSlot_ = newBlock + alignedBlockSize]

\* newBlock: the address operator new(alignedBlockSize) returns
allocateBlock(P, newBlock) ==
    [PoolWrite(P, newBlock, P.currentBlock_)
        EXCEPT !.heap[newBlock] = "block",
               !.currentBlock_ = newBlock,
               !.currentSlot_ = newBlock + paddedSlotSize,
               !.lastSlot_ = newBlock + alignedBlockSize]

\* allocate(n); fresh: the address operator new returns if it is called
PoolAllocate(P, n, fresh) ==
    IF n # 1
    THEN [P |-> [P EXCEPT !.heap[fresh] = "array"], result |-> fresh]
    ELSE IF P.freeSlot_ # NULL
    THEN [P |-> [P EXCEPT !.freeSlot_ = Read(P.word, P.freeSlot_)], result |-> P.freeSlot_]
    ELSE LET Bump(Q) == [P |-> [Q EXCEPT !.currentSlot_ = @ + sizeofSlot],
                         result |-> Q.currentSlot_]
         IN Bump(IF P.currentSlot_ >= P.lastSlot_ THEN allocateBlock(P, fresh) ELSE P)

\* deallocate(p, n)
PoolDeallocate(P, p, n) ==
    IF p = NULL THEN P
    ELSE IF n # 1 THEN [P EXCEPT !.heap[p] = "free"]
    ELSE [PoolWrite(P, p, P.freeSlot_) EXCEPT !.freeSlot_ = p]

\* allocate(n) reaches operator new
CallsNew(P, n) == n # 1 \/ (P.freeSlot_ = NULL /\ P.currentSlot_ >= P.lastSlot_)

\* the rest of the allocator plays no part
PoolOnly ==
    UNCHANGED <<lockVars, build, platform, mode, status, mem, tcVars, ccVars, pcVars,
                unmapped, heap, live, ops>>

\* the user asks for n elements and constructs the first one in place
allocate(n) ==
    /\ mode = "pool"
    /\ Cardinality(probe.out) < MaxPoolLive
    /\ n # 1 => \A o \in probe.out : o.n = 1
    /\ \E fresh \in PoolChunks :
          LET Got(r) ==
                  /\ probe' = [PoolWrite(r.P, r.result, UserData)
                                  EXCEPT !.out = @ \cup {[addr |-> r.result, n |-> n]},
                                         !.freed = SelectSeq(@, LAMBDA a : a # r.result)]
                  /\ ret' = [op |-> "allocate", n |-> n, ok |-> TRUE, addr |-> r.result,
                             locks |-> {}]
          IN /\ IF CallsNew(probe, n) THEN probe.heap[fresh] = "free"
                                        ELSE fresh = SetMin(PoolChunks)
             /\ Got(PoolAllocate(probe, n, fresh))
    /\ PoolOnly

\* the user hands back what it holds, with the count it asked for
deallocate(o) ==
    /\ mode = "pool"
    /\ o \in probe.out
    /\ probe' = [PoolDeallocate(probe, o.addr, o.n)
                    EXCEPT !.out = @ \ {o},
                           !.freed = IF o.n = 1 THEN Append(@, o.addr) ELSE @]
    /\ ret' = [op |-> "deallocate", n |-> o.n, ok |-> TRUE, addr |-> o.addr, locks |-> {}]
    /\ PoolOnly

\* deallocate(nullptr, n)
deallocateNull(n) ==
    /\ mode = "pool"
    /\ probe' = PoolDeallocate(probe, NULL, n)
    /\ ret' = [op |-> "deallocateNull", n |-> n, ok |-> TRUE, addr |-> NULL, locks |-> {}]
    /\ PoolOnly

NextPool ==
    \/ \E n \in PoolCounts : allocate(n)
    \/ \E o \in probe.out : deallocate(o)
    \/ \E n \in PoolCounts : deallocateNull(n)

SpecPool == InitPool /\ [][NextPool]_vars

----------------------------------------------------------------------------
(* Properties                                                              *)

LargeRequest(n) == n > MAX_CACHED_UNIT_SIZE
AllocatorVars == <<status, mem, tcVars, ccVars, pcVars, unmapped, heap>>

\* C1: the blocks user code holds at one time have pairwise distinct
\* addresses and pairwise disjoint byte ranges [a, a + n), whatever their sizes
OutstandingDisjoint ==
    \A s1 \in LiveSlots, s2 \in LiveSlots :
        s1 # s2 => \/ live[s1].addr + live[s1].n <= live[s2].addr
                   \/ live[s2].addr + live[s2].n <= live[s1].addr

\* every place a block is in: <<kind, thread, index, position, address>>
NodesOf(head) == ListWalk(mem, pageVector_, head, Cardinality(DOMAIN mem) + 1).nodes
Places ==
    LET tl == [t \in Threads |-> [i \in Indexes |-> NodesOf(freeList_[t][i])]]
        cl == [i \in Indexes |-> NodesOf(freeLists_[i])]
    IN UNION {{<<"thread", t, i, k, tl[t][i][k]>> : k \in 1..Len(tl[t][i])} :
                 t \in Threads, i \in Indexes}
       \cup UNION {{<<"central", 0, i, k, cl[i][k]>> : k \in 1..Len(cl[i])} : i \in Indexes}
       \cup {<<"user", 0, 0, s, live[s].addr>> : s \in LiveSlots}
\* the blocks carved from the runs CentralCache holds
Carved ==
    UNION {UNION {{pageMaps_[i][k].data + j * pageMaps_[i][k].unitSize :
                      j \in 0..(pageMaps_[i][k].totalUnitCount - 1)} :
                  k \in DOMAIN pageMaps_[i]} : i \in Indexes}

\* C2: while the program runs, every block carved from a run is in exactly
\* one place: once on one ThreadCache list, or once on the CentralCache list,
\* or held by user code; nothing is in two places
EachBlockInOnePlace ==
    status = "running" =>
        LET places == Places IN
        \A b \in Carved \cup {e[5] : e \in places} :
            Cardinality({e \in places : e[5] = b}) = 1

\* C3: for n in 1..32768 the index of the rounded size selects the table
\* entry equal to the rounded size
IndexSelectsClass ==
    (probe.n >= 1 /\ probe.n <= MAX_CACHED_UNIT_SIZE) => SizeClassAt(probe.idx) = probe.cls

SmallestEntry(n) == SetMin({SIZE_CLASSES[i] : i \in {j \in 1..CACHE_LIST_SIZE : SIZE_CLASSES[j] >= n}})

\* C4: for n in 1..32768 GetSizeClass(n) is the smallest SIZE_CLASSES entry
\* that is >= n; above 32768 it is n itself
RoundsToSmallestEntry ==
    probe.n >= 1 =>
        IF probe.n <= MAX_CACHED_UNIT_SIZE THEN probe.cls = SmallestEntry(probe.n)
        ELSE probe.cls = probe.n

\* C5: every address Allocate(n) returns, n >= 1, cached or large, is a
\* multiple of the pointer size
ReturnedAligned ==
    (ret.op = "Allocate" /\ ret.ok) => ret.addr % ALIGNMENT = 0

InBlock(x, s) == x >= live[s].addr /\ x < live[s].addr + live[s].n

\* C6: no Allocate or Deallocate changes a word inside a block that user code
\* holds before and after the call
AllocatorKeepsOutOfHeldBlocks ==
    [][ret'.op \in {"Allocate", "Deallocate", "DeallocateNull", "DeallocateZero"} =>
        \A s \in Slots :
            (live[s] # NoBlock /\ live'[s] = live[s]) =>
                \A x \in DOMAIN mem' : InBlock(x, s) => WordAt(x)' = WordAt(x)]_vars

\* C7: Allocate(0) returns none, changes nothing of ThreadCache, CentralCache,
\* PageCache or memory, and takes no lock
AllocateZeroIsInert ==
    [][(ret'.op = "Allocate" /\ ret'.n = 0) =>
        /\ ~ret'.ok /\ ret'.addr = NULL /\ ret'.locks = {}
        /\ UNCHANGED <<AllocatorVars, live>>]_vars

\* Allocate(0) has been called on an allocator with blocks in its caches
AllocateZeroCalled ==
    /\ ret.op = "Allocate" /\ ret.n = 0
    /\ \E t \in Threads, i \in Indexes : freeListSize_[t][i] > 0

\* C8: Deallocate(null, n) and Deallocate(a, 0) change nothing of the
\* allocator, and the block passed with size 0 is still held, so that its
\* later Deallocate with the real size starts from the state of a first free
NullOrZeroDeallocateIsNoOp ==
    [][ret'.op \in {"DeallocateNull", "DeallocateZero"} =>
        /\ ret'.ok /\ ret'.locks = {}
        /\ UNCHANGED <<AllocatorVars, live>>]_vars

\* Deallocate(a, 0) has been called on a block user code holds
ZeroDeallocateCalled ==
    /\ ret.op = "DeallocateZero"
    /\ \E s \in LiveSlots : live[s].addr = ret.addr /\ ~LargeRequest(live[s].n)

\* C9: Allocate(n), n > 32 KiB, returns an address and reaches no fatal
\* assertion whenever the system heap has a chunk to give, and the matching
\* Deallocate(a, n) completes
LargeRequestSucceeds ==
    /\ (ret.op = "Allocate" /\ LargeRequest(ret.n)) =>
            /\ status = "running"
            /\ ret.ok \/ \A c \in Chunks : heap[c] = "used"
    /\ (ret.op = "Deallocate" /\ LargeRequest(ret.n)) => status = "running"

\* C10: an Allocate or Deallocate of a size above 32 KiB that returns leaves
\* every per-class field of every ThreadCache and of CentralCache, and
\* PageCache's freePageStore_ and freePageMap_, as they were
LargeRequestBypassesCaches ==
    [][(ret'.op \in {"Allocate", "Deallocate"} /\ LargeRequest(ret'.n) /\ status' = "running") =>
        UNCHANGED <<tcVars, ccVars, freePageStore_, freePageMap_>>]_vars

\* the blocks of one run, the blocks cached by the threads, the blocks held
RunBlocks(ps) == {ps.data + j * ps.unitSize : j \in 0..(ps.totalUnitCount - 1)}
Elems(seq) == {seq[k] : k \in 1..Len(seq)}
ThreadCached == UNION {Elems(NodesOf(freeList_[t][i])) : t \in Threads, i \in Indexes}
UserHeld == {live[s].addr : s \in LiveSlots}

\* C11: the in-use count of every run CentralCache has on loan is
\* the number of its blocks held by user code
InUseIsUserHeld ==
    status = "running" =>
        \A i \in Indexes : \A k \in DOMAIN pageMaps_[i] :
            pageMaps_[i][k].allocatedUnitCount
                = Cardinality(RunBlocks(pageMaps_[i][k]) \cap UserHeld)

\* the weaker reading of C11: the in-use count is the number of blocks of the
\* run that CentralCache has handed out and not received back, those held by
\* user code and those cached on a ThreadCache list
InUseIsHandedOut ==
    status = "running" =>
        \A i \in Indexes : \A k \in DOMAIN pageMaps_[i] :
            pageMaps_[i][k].allocatedUnitCount
                = Cardinality(RunBlocks(pageMaps_[i][k]) \cap (UserHeld \cup ThreadCached))

\* the blocks on the CentralCache list of class i
CentralFree(i) == Elems(NodesOf(freeLists_[i]))
InRun(b, ps) == b >= ps.data /\ b < ps.data + ps.size

\* C12: after every CentralCache operation, for each span record, the in-use
\* count plus the number of blocks on the class free list whose address lies
\* in the run is the size of the run divided by the size of the class
SpanConserved ==
    (status = "running" /\ mode = "central") =>
        \A i \in Indexes : \A k \in DOMAIN pageMaps_[i] :
            LET Counted(free) ==
                    pageMaps_[i][k].allocatedUnitCount
                        + Cardinality({b \in free : InRun(b, pageMaps_[i][k])})
                      = pageMaps_[i][k].size \div SizeClassAt(i)
            IN Counted(CentralFree(i))

AllCached == ThreadCached \cup UNION {CentralFree(i) : i \in Indexes}
FreeRuns == {freePageMap_[k] : k \in DOMAIN freePageMap_}

ReturnCountsAndReleases ==
    [][(ret'.op = "CentralDeallocate" /\ status' = "running") =>
        LET Settled(i, chain) ==
                /\ \A k \in DOMAIN pageMaps_[i] :
                      LET Counted(ps, back) ==
                              IF ps.allocatedUnitCount > back
                              THEN /\ k \in DOMAIN pageMaps_'[i]
                                   /\ pageMaps_'[i][k].allocatedUnitCount
                                          = ps.allocatedUnitCount - back
                              ELSE /\ k \notin DOMAIN pageMaps_'[i]
                                   /\ \E f \in DOMAIN freePageMap_' :
                                         /\ freePageMap_'[f].data <= ps.data
                                         /\ ps.data + ps.size
                                                <= freePageMap_'[f].data + freePageMap_'[f].size
                      IN Counted(pageMaps_[i][k],
                                 Cardinality({b \in chain : SpanKeyOf(pageMaps_[i], b) = k}))
                /\ \A k \in DOMAIN pageMaps_'[i] : pageMaps_'[i][k].allocatedUnitCount > 0
        IN Settled(GetIndex(ret'.n),
                   Elems(ListWalk(mem, pageVector_, ret'.addr, ret'.count).nodes))]_vars

\* a chain of several blocks has come back and took the last blocks of a run
\* with it: the region is whole again in PageCache's free index
RunReleasedByChain ==
    /\ status = "running"
    /\ ret.op = "CentralDeallocate" /\ ret.count > 1 /\ PageMutex \in ret.locks
    /\ \E r \in FreeRuns : r.size = PAGE_ALLOCATE_COUNT * PAGE_SIZE

\* C15: no two runs of PageCache's free index overlap, and none ends where
\* another begins
FreeRunsApart ==
    status = "running" =>
        \A f \in DOMAIN freePageMap_, g \in DOMAIN freePageMap_ :
            f < g => freePageMap_[f].data + freePageMap_[f].size < freePageMap_[g].data

\* C16: a call whose request for pages the OS refuses returns none and the
\* process goes on
RefusalReturnsNone ==
    (ret.op = "AllocatePage" /\ ret.refused) => (status = "running" /\ ~ret.ok)

\* C17: once Stop has been called every region recorded in pageVector_ has
\* been released, and however many times Stop is called each recorded region
\* is released exactly once
StopReleasesEachOnce ==
    /\ \A d \in DOMAIN unmapped : unmapped[d] <= 1
    /\ ret.op = "Stop" =>
          \A i \in 1..Len(pageVector_) :
              /\ pageVector_[i].data \in DOMAIN unmapped
              /\ unmapped[pageVector_[i].data] = 1

\* C18: an AllocatePage after Stop returns no run that lies in a region Stop
\* has released
NoRunFromReleasedRegion ==
    (ret.op = "AllocatePage" /\ ret.ok) =>
        \A i \in 1..Len(pageVector_) :
            (pageVector_[i].data \in DOMAIN unmapped /\ unmapped[pageVector_[i].data] > 0)
                => ~InRun(ret.addr, pageVector_[i])

Holding(t, lock) == \E k \in 1..Len(pc[t].held) : pc[t].held[k] = lock
\* thread t is between the acquisition and the release of the flag of class i
InGuard(t, i) ==
    pc[t].op \in {"Allocate", "Deallocate"} /\ pc[t].index = i /\ pc[t].at \notin {"idle", "guard"}
\* thread t reads or writes the lists, lengths, span map or group count of its class
Accessing(t) == pc[t].at \in {"section", "slice"}

\* C19: at most one thread at a time is between acquiring and releasing the
\* flag of a class, and a thread that reads or writes the state of a class
\* holds the flag of that class, which is set
ClassGuarded ==
    /\ \A i \in Indexes : Cardinality({t \in Threads : InGuard(t, i)}) <= 1
    /\ \A t \in Threads :
          Accessing(t) => Holding(t, ClassFlag(pc[t].index)) /\ statusLists_[pc[t].index]

\* one thread works on a class while another spins at the guard of that class
GuardContended ==
    \E t \in Threads, u \in Threads :
        /\ t # u /\ Accessing(t) /\ pc[u].at = "guard"
        /\ pc[u].index = pc[t].index /\ statusLists_[pc[t].index]

Blocked(t) ==
    \/ pc[t].at = "guard" /\ statusLists_[pc[t].index]
    \/ pc[t].at = "lock" /\ mutex_ # 0
Awaited(t) == IF pc[t].at = "guard" THEN ClassFlag(pc[t].index) ELSE PageMutex
Holders(lock) == {u \in Threads : Holding(u, lock)}
\* every thread of D waits for a lock that only threads of D could release
Deadlocked(D) == D # {} /\ \A t \in D : Blocked(t) /\ Holders(Awaited(t)) \subseteq D

\* C20: a thread holds nothing, one class flag, PageCache's mutex, or one
\* class flag and then the mutex, taken in that order; and no set of threads
\* is deadlocked
LockOrderNoDeadlock ==
    /\ \A t \in Threads :
          /\ Len(pc[t].held) <= 2
          /\ \A k \in 1..Len(pc[t].held) :
                pc[t].held[k] = PageMutex => k = Len(pc[t].held)
          /\ Len(pc[t].held) = 2 => pc[t].held[1] # PageMutex
    /\ \A D \in SUBSET Threads : ~Deadlocked(D)

\* one thread is in PageCache holding a class flag and the mutex while another
\* holds the flag of another class and waits for the mutex
MutexContended ==
    \E t \in Threads, u \in Threads :
        /\ t # u /\ pc[t].at = "page" /\ Len(pc[t].held) = 2
        /\ pc[u].at = "lock" /\ Len(pc[u].held) = 1 /\ pc[u].index # pc[t].index

RunsOf(b) ==
    {ps \in UNION {{pageMaps_[i][k] : k \in DOMAIN pageMaps_[i]} : i \in Indexes} : InRun(b, ps)}
Extent(b) == IF RunsOf(b) = {} THEN 0 ELSE SetMin({ps.unitSize : ps \in RunsOf(b)})
ReturnedExtent == Extent(ret.addr)

\* C22: when a thread has freed a block with a cached size n and then, with
\* nothing in between, allocates n bytes, the call succeeds and returns a
\* block of at least GetSizeClass(n) bytes
ReuseAfterFree ==
    [][(/\ mode = "reuse"
        /\ ret.op = "Deallocate" /\ ret.ok /\ Cached(ret.n)
        /\ ret'.op = "Allocate" /\ ret'.n = ret.n)
       => (ret'.ok /\ ReturnedExtent' >= GetSizeClass(ret.n))]_vars

\* C23: once user code has freed every block and every thread has ended,
\* every span record counts no block in use and every run is back in
\* PageCache, so that CentralCache keeps no span record
ExitHandsBack ==
    (status = "running" /\ LiveSlots = {} /\ \A t \in Threads : pc[t].at = "exited") =>
        \A i \in Indexes :
            /\ \A k \in DOMAIN pageMaps_[i] : pageMaps_[i][k].allocatedUnitCount = 0
            /\ pageMaps_[i] = << >>

\* the longest batch ComputeAllocateCount asks for in a class of size s
BatchCeiling(s) ==
    Max(16, Min(Min(IF s <= 128 THEN 256 ELSE IF s <= 1024 THEN 128 ELSE 64,
                    (MAX_FREE_BYTES_PER_LIST \div s) \div 2),
                MAX_UNIT_COUNT))
\* the smallest of the three caps on the stored batch count of a class of size s
SmallestCap(s) ==
    Min(Min(IF s <= 128 THEN 256 ELSE IF s <= 1024 THEN 128 ELSE 64,
            (MAX_FREE_BYTES_PER_LIST \div s) \div 2),
        MAX_UNIT_COUNT)
ClassOfCall == GetSizeClass(ret.n)
\* a step in which the list of class i of thread t is refilled
Refilled(t, i) == freeListSize_'[t][i] > freeListSize_[t][i] + 1

FastPathsLocal ==
    [][\A t \in Threads :
          (/\ ret'.n > 0 /\ Cached(ret'.n)
           /\ freeList_'[t] # freeList_[t]
           /\ \/ /\ ret'.op = "Allocate"
                 /\ freeList_[t][GetIndex(ClassOfCall')] # NULL
              \/ /\ ret'.op = "Deallocate"
                 /\ (freeListSize_[t][GetIndex(ClassOfCall')] + 1) * ClassOfCall'
                        <= MAX_FREE_BYTES_PER_LIST)
          => /\ ret'.locks = {}
             /\ UNCHANGED <<ccVars, pcVars, unmapped, statusLists_, mutex_>>
             /\ \A u \in Threads \ {t} :
                   /\ freeList_'[u] = freeList_[u]
                   /\ freeListSize_'[u] = freeListSize_[u]
                   /\ nextAllocateCount_'[u] = nextAllocateCount_[u]]_vars

\* a thread has been served from its own list while the other thread has
\* blocks on its list too
ServedFromOwnList ==
    /\ ret.op = "Allocate" /\ ret.ok /\ Cached(ret.n) /\ ret.locks = {}
    /\ \A t \in Threads : freeList_[t][GetIndex(ClassOfCall)] # NULL

\* the blocks of the list that starts at head in memory m, from the head
Chain(m, vec, head) == ListWalk(m, vec, head, Cardinality(DOMAIN m) + 1).nodes
SlowStart ==
    [][\A i \in Indexes :
          (ret'.op = "ComputeAllocateCount" /\ i = GetIndex(ClassOfCall'))
          => /\ ret'.count = Max(nextAllocateCount_[Producer][i], 16)
             /\ nextAllocateCount_'[Producer][i] = Min(2 * ret'.count, SmallestCap(ClassOfCall'))
             /\ ret'.count >= 16 /\ ret'.count <= SmallestCap(ClassOfCall')
             /\ (ret.op = "ComputeAllocateCount" /\ i = GetIndex(ClassOfCall))
                   => ret'.count >= ret.count]_vars

\* the group counter c after r releases of a run
RECURSIVE HalvedTimes(_, _)
HalvedTimes(c, r) == IF r <= 0 THEN c ELSE HalvedTimes(Max(c \div 2, 1), r - 1)
GroupOf(i) == Max(nextAllocateMemoryGroupCount_[i], 1)

\* C28: an Allocate of CentralCache that goes to PageCache asks for
\* ceil(g * MAX_FREE_BYTES_PER_LIST / PAGE_SIZE) pages, g the larger of the
\* class counter and 1, and leaves the counter at g + 1; an Allocate served
\* from the class list leaves the counter alone; every release of a run sets
\* the counter to the larger of its half and 1
GroupSlowStart ==
    [][\A i \in Indexes :
          /\ (ret'.op = "CentralAllocate" /\ i = GetIndex(ret'.n) /\ PageMutex \in ret'.locks)
             => /\ nextAllocateMemoryGroupCount_'[i] = GroupOf(i) + 1
                /\ ret'.ok =>
                      \E k \in DOMAIN pageMaps_'[i] \ DOMAIN pageMaps_[i] :
                          pageMaps_'[i][k].size
                              = ((GroupOf(i) * MAX_FREE_BYTES_PER_LIST + PAGE_SIZE - 1)
                                    \div PAGE_SIZE) * PAGE_SIZE
          /\ (ret'.op = "CentralAllocate" /\ i = GetIndex(ret'.n) /\ PageMutex \notin ret'.locks)
             => nextAllocateMemoryGroupCount_'[i] = nextAllocateMemoryGroupCount_[i]
          /\ (ret'.op = "CentralDeallocate" /\ i = GetIndex(ret'.n) /\ status' = "running")
             => nextAllocateMemoryGroupCount_'[i]
                   = HalvedTimes(nextAllocateMemoryGroupCount_[i],
                                 Cardinality(DOMAIN pageMaps_[i] \ DOMAIN pageMaps_'[i]))]_vars

\* CentralCache has taken a second, larger run for a class whose list ran dry
SecondGroupTaken ==
    /\ status = "running" /\ ret.op = "CentralAllocate" /\ ret.ok /\ PageMutex \in ret.locks
    /\ nextAllocateMemoryGroupCount_[GetIndex(ret.n)] = 3

\* the slices j with lo <= j < hi of a run that starts at d
Slices(d, size, lo, hi) == {d + j * size : j \in lo..(hi - 1)}

Enough(pageCount) == {run \in FreeRuns : run.size >= pageCount * PAGE_SIZE}

\* C30: an AllocatePage that finds a free run of at least pageCount pages in
\* the index maps no region and serves the request from the start of a run
\* of the smallest such size; one that finds none maps one region of
\* max(PAGE_ALLOCATE_COUNT, pageCount) pages, records it in pageVector_ and
\* serves the request from its start
ServedFromSmallestRun ==
    [][(ret'.op = "AllocatePage" /\ ret'.ok)
       => \A enough \in {Enough(ret'.n)} :
             IF enough # {}
             THEN /\ pageVector_' = pageVector_
                  /\ \E run \in enough : /\ run.data = ret'.addr
                                          /\ \A o \in enough : run.size <= o.size
             ELSE /\ Len(pageVector_') = Len(pageVector_) + 1
                  /\ pageVector_'[Len(pageVector_')]
                        = MemorySpan(ret'.addr, Max(PAGE_ALLOCATE_COUNT, ret'.n) * PAGE_SIZE)
                  /\ SubSeq(pageVector_', 1, Len(pageVector_)) = pageVector_]_vars


\* the runs on loan, as the caller's span map records them
Leased ==
    {MemorySpan(pageMaps_[PageClass][k].data, pageMaps_[PageClass][k].size) :
        k \in DOMAIN pageMaps_[PageClass]}
StoreRuns == UNION {freePageStore_[k] : k \in DOMAIN freePageStore_}
Apart(a, b) == a.data + a.size <= b.data \/ b.data + b.size <= a.data
Regions == {pageVector_[i] : i \in 1..Len(pageVector_)}
ReturnedRun == MemorySpan(ret.addr, ret.count * PAGE_SIZE)

PagesOf(run) == {run.data + j * PAGE_SIZE : j \in 0..(run.size \div PAGE_SIZE - 1)}
FreePages == UNION {PagesOf(run) : run \in FreeRuns}
\* the free runs that touch page: the one that ends where it starts and the
\* one that starts where it ends
Neighbours(page) ==
    {run \in FreeRuns : run.data + run.size = page.data \/ run.data = page.data + page.size}
\* the run from the lowest start to the highest end of a set of runs
Cover(runs) ==
    MemorySpan(SetMin({r.data : r \in runs}),
               SetMax({r.data + r.size : r \in runs}) - SetMin({r.data : r \in runs}))

Covers(outer, inner) ==
    outer.data <= inner.data /\ inner.data + inner.size <= outer.data + outer.size

\* C32: after DeallocatePage(run) the free index holds exactly one run that
\* covers the returned run, the free run that ended at its start and the free
\* run that started at its end; it is in both indices, those neighbours are
\* indexed no more, no other run has been added, and the free pages are the
\* former free pages and the pages of the returned run
DeallocateMergesNeighbours ==
    [][(ret'.op = "DeallocatePage" /\ status' = "running")
       => \A page \in {MemorySpan(ret'.addr, ret'.n * PAGE_SIZE)} :
          \A near \in {Neighbours(page)} :
          \A covering \in {{m \in FreeRuns' : Covers(m, Cover({page} \cup near))}} :
             /\ Cardinality(covering) = 1
             /\ \A m \in covering :
                   /\ m \in freePageStore_'[m.size \div PAGE_SIZE]
                   /\ FreeRuns' \ {m} \subseteq FreeRuns \ near
             /\ StoreRuns' = FreeRuns'
             /\ \A r \in near : r \notin FreeRuns' /\ r \notin StoreRuns'
             /\ FreePages' = FreePages \cup PagesOf(page)]_vars

\* a run has gone back between two free runs and the three are one run now
MergedBothSides ==
    /\ status = "running" /\ ret.op = "DeallocatePage"
    /\ \E m \in FreeRuns : /\ m.data < ret.addr
                           /\ ret.addr + ret.n * PAGE_SIZE < m.data + m.size

\* the runs CentralCache holds, over all classes, and the records that leave
\* its span maps in a step
LeasedRuns ==
    UNION {{MemorySpan(pageMaps_[i][k].data, pageMaps_[i][k].size) : k \in DOMAIN pageMaps_[i]} :
              i \in Indexes}
Returned ==
    UNION {{MemorySpan(pageMaps_[i][k].data, pageMaps_[i][k].size) :
               k \in DOMAIN pageMaps_[i] \ DOMAIN pageMaps_'[i]} : i \in Indexes}
\* DeallocatePage, called now with this run, would find its start indexed
StartIndexed(run) == DeallocatePage(SOf, run, TRUE).st = "aborted"

\* C33: no run CentralCache holds is one DeallocatePage would find in the
\* free index, or overlaps a free run or another run it holds; and a step of
\* Deallocate that releases runs adds the pages of each of them to the free
\* pages once, none of them free before
RunsReturnedOnce ==
    /\ [](status = "running" =>
            \A run \in LeasedRuns :
                /\ run.size % PAGE_SIZE = 0
                /\ ~StartIndexed(run)
                /\ \A f \in FreeRuns : Apart(run, f)
                /\ \A other \in LeasedRuns \ {run} : Apart(run, other))
    /\ [][(ret'.op \in {"Deallocate", "CentralDeallocate"} /\ status' = "running")
          => \A back \in {Returned} :
                /\ \A run \in back : PagesOf(run) \cap FreePages = {}
                /\ FreePages' = FreePages \cup UNION {PagesOf(run) : run \in back}
                /\ \A run \in back : \E f \in FreeRuns' : Covers(f, run)]_vars

\* a flush has taken the last blocks of a run back and CentralCache has
\* released the run, which begins where a run it still holds ends
RunReturnedToIndex ==
    /\ status = "running" /\ ret.op = "Deallocate" /\ PageMutex \in ret.locks
    /\ LeasedRuns # {}
    /\ \E f \in FreeRuns : \E run \in LeasedRuns : run.data + run.size = f.data

\* thread t is the caller of the Deallocate of this step: the block was
\* pushed on its list of the class of the call
Pushing(t) ==
    freeListSize_'[t][GetIndex(ClassOfCall')]
        # freeListSize_[t][GetIndex(ClassOfCall')]

\* C34: when a Deallocate of a cached size takes a list over the cap, the
\* list holds the freeBlockSize blocks the flush walks over, the pushed one
\* included, so the walk meets no null link; and a walk that did meet one
\* would leave CentralCache as it is
FlushWalkCompletes ==
    [][(ret'.op = "Deallocate" /\ Cached(ret'.n))
       => \A t \in {u \in Threads : Pushing(u)} :
          \A i \in {GetIndex(ClassOfCall')} :
             OverCap(freeListSize_[t][i] + 1, ClassOfCall')
                => \A walk \in {ListWalk(mem, pageVector_, freeList_[t][i],
                                         (freeListSize_[t][i] + 1) \div 2 - 1)} :
                      \/ Len(walk.nodes) = (freeListSize_[t][i] + 1) \div 2 - 1
                      \/ walk.at # NULL]_vars

\* the blocks a Deallocate of thread t hands to CentralCache when the push
\* takes the list of class i to size blocks: the freed block, then the first
\* size / 2 - 1 blocks of the list
FlushedChain(t, i, addr, size) ==
    <<addr>> \o ListWalk(mem, pageVector_, freeList_[t][i], size \div 2 - 1).nodes

\* C35: for every block a flush hands to CentralCache::Deallocate the size of
\* the call is SIZE_CLASSES[index], the span map of the class has a record at
\* or before the block, and that record claims the block; and the call, run
\* with its assertions compiled in, passes them all
FlushedBlocksClaimed ==
    [][(ret'.op = "Deallocate" /\ Cached(ret'.n))
       => \A t \in {u \in Threads : Pushing(u)} :
          \A i \in {GetIndex(ClassOfCall')} :
             OverCap(freeListSize_[t][i] + 1, ClassOfCall')
                => /\ SizeClassAt(i) = ClassOfCall'
                   /\ \A k \in {SpanKeyOf(pageMaps_[i], ret'.addr)} :
                         /\ k # NULL
                         /\ IsInCharge(pageMaps_[i][k], MemorySpan(ret'.addr, ClassOfCall'))
                   /\ \A chain \in {FlushedChain(t, i, ret'.addr, freeListSize_[t][i] + 1)} :
                      \A j \in 1..Len(chain) :
                         \E k \in DOMAIN pageMaps_[i] :
                            IsInCharge(pageMaps_[i][k], MemorySpan(chain[j], ClassOfCall'))
                   /\ ThreadCache_Deallocate(SOf, TOf(t), ret'.addr, ret'.n, TRUE).S.st
                         # "aborted"]_vars

\* the records of the span map of class i whose run holds address a
RecordsAt(i, a) ==
    {pageMaps_[i][k] : k \in {x \in DOMAIN pageMaps_[i] : InRun(a, pageMaps_[i][x])}}
CachedSlots == {s \in LiveSlots : Cached(live[s].n)}

\* C36: two requests that round to different sizes have different indices;
\* the records of one span map of CentralCache have one unit size; and a
\* block handed out for a request lies in a run cut at the rounded size of
\* that request
ListsHomogeneous ==
    status = "running" =>
        /\ \A s \in CachedSlots, r \in CachedSlots :
              GetSizeClass(live[s].n) # GetSizeClass(live[r].n)
                 => GetIndex(GetSizeClass(live[s].n)) # GetIndex(GetSizeClass(live[r].n))
        /\ \A i \in Indexes : \A k \in DOMAIN pageMaps_[i], x \in DOMAIN pageMaps_[i] :
              pageMaps_[i][k].unitSize = pageMaps_[i][x].unitSize
        /\ \A s \in CachedSlots :
              \A ps \in RecordsAt(GetIndex(GetSizeClass(live[s].n)), live[s].addr) :
                 ps.unitSize = GetSizeClass(live[s].n)

\* the list from head has exactly size blocks, all different, and ends in a
\* null link
WellFormed(head, size) ==
    size >= 0 /\
    \A walk \in {ListWalk(mem, pageVector_, head, size + 1)} :
        /\ Len(walk.nodes) = size
        /\ walk.at = NULL
        /\ Cardinality(Elems(walk.nodes)) = size

\* C37: the stored length of every ThreadCache list and of every
\* CentralCache list is the number of blocks reachable from its head, and
\* every list is acyclic and ends in a null link
LengthsMatchLists ==
    status = "running" =>
        /\ \A t \in Threads, i \in Indexes : WellFormed(freeList_[t][i], freeListSize_[t][i])
        /\ \A i \in Indexes : WellFormed(freeLists_[i], freeListSizes_[i])

\* C38: freePageMap_ and freePageStore_ hold the same runs: a run is in the
\* map under its start exactly when it is in the store under its page count,
\* with the same start and size; and every indexed run starts on a page
\* boundary and is a whole, positive number of pages long
IndicesAgree ==
    status = "running" =>
        /\ FreeRuns = StoreRuns
        /\ \A k \in DOMAIN freePageMap_ : freePageMap_[k].data = k
        /\ \A k \in DOMAIN freePageStore_ : \A run \in freePageStore_[k] :
              /\ run.size = k * PAGE_SIZE
              /\ run.data \in DOMAIN freePageMap_
              /\ freePageMap_[run.data] = run
        /\ \A run \in FreeRuns \cup StoreRuns :
              /\ run.data % PAGE_SIZE = 0
              /\ run.size % PAGE_SIZE = 0
              /\ run.size > 0
              /\ run \in StoreAt(freePageStore_, run.size \div PAGE_SIZE)

\* runs of two lengths are indexed, one of them the result of a merge with a
\* run that was indexed before
TwoRunsIndexed ==
    /\ status = "running" /\ ret.op = "DeallocatePage"
    /\ Cardinality({run.size : run \in FreeRuns}) >= 2
    /\ \E run \in FreeRuns : /\ run.data <= ret.addr
                             /\ run.size > ret.n * PAGE_SIZE
    /\ \E k \in DOMAIN freePageStore_ : freePageStore_[k] = {}


\* the slots of the block at b: every slot but the first, which holds the link
BlockSlots(b) == {b + k * paddedSlotSize : k \in 1..slotsPerBlock}

RECURSIVE BlockChain(_, _)
BlockChain(P, b) == IF b = NULL THEN {} ELSE {b} \cup BlockChain(P, Read(P.word, b))

\* the blocks the pool owns: the chain that starts at currentBlock_
OwnedBlocks(P) == BlockChain(P, P.currentBlock_)

Held(P) == {o.addr : o \in P.out}

\* the slots of the current block never handed out
UnusedSlots(P) ==
    IF P.currentBlock_ = NULL THEN {}
    ELSE BlockSlots(P.currentBlock_) \ (Held(P) \cup Elems(P.freed))

PoolHandsOut(P, Q, a) ==
    /\ \A o \in P.out : a + sizeofT <= o.addr \/ o.addr + o.n * sizeofT <= a
    /\ \E b \in OwnedBlocks(Q) : b <= a /\ a + sizeofT <= b + alignedBlockSize
    /\ IF P.freed # << >>
       THEN a = P.freed[Len(P.freed)] /\ Q.heap = P.heap
       ELSE IF UnusedSlots(P) # {}
       THEN a = SetMin(UnusedSlots(P)) /\ Q.heap = P.heap
       ELSE /\ OwnedBlocks(Q) = OwnedBlocks(P) \cup {Q.currentBlock_}
            /\ P.heap[Q.currentBlock_] = "free"
            /\ a = SetMin(BlockSlots(Q.currentBlock_))

\* C39: allocate(1) of the v1 pool never returns a slot its user still holds;
\* it returns the slot deallocated last if any deallocated slot waits, else the
\* next unused slot of the current block, takes a new block only when the
\* current block has no unused slot, and the slot lies inside an owned block
PoolAllocateOneSafe ==
    [][(mode = "pool" /\ Cardinality(probe'.out) > Cardinality(probe.out) /\ ret'.n = 1)
          => PoolHandsOut(probe, probe', ret'.addr)]_vars

\* the fifth slot held at once is the first slot of a second block
PoolSecondBlock ==
    /\ mode = "pool"
    /\ ret.op = "allocate" /\ ret.n = 1
    /\ Cardinality(OwnedBlocks(probe)) = 2
    /\ ret.addr = probe.currentBlock_ + paddedSlotSize
    /\ probe.freed = << >>
    /\ Cardinality(probe.out) = slotsPerBlock + 1

====
